---------------------------- MODULE Spec2Model ----------------------------
(* Model of the Assemblyline scaler (assemblyline_core/scaler/scaler_server.py): *)
(* the ServiceProfile pressure controller, the allocator (update_scaling), the  *)
(* synchronizer (sync_services / stop_service) and the error tracker            *)
(* (handle_service_error).                                                      *)
(*                                                                              *)
(* Real-valued quantities are fixed-point integers:                             *)
(*   pressure     in units of 1/PressureUnit (so 0.1/s leak is leak_rate = 9)   *)
(*   duty cycle   in tenths (target_duty_cycle 0.9 is 9)                        *)
EXTENDS Integers, Sequences, FiniteSets, TLC

VARIABLES
    profiles,       \* ScalerServer.profiles: name -> ServiceProfile fields
    order,          \* insertion order of the keys of ScalerServer.profiles
    target,         \* controller.get_target / set_target: name -> replicas
    cluster,        \* the controller's resource pool: [cpu, mem]
    last,           \* what the last ServiceProfile.update call did (history)
    apc,            \* update_scaling: position inside one tick
    targets,        \* update_scaling: the local targets map
    futures,        \* Pool.futures: the set_target calls submitted to the pool
    tick,           \* what the current / last tick did (history)
    changed,        \* a profile changed since the last tick ended (history)
    ran,            \* a tick has completed (history)
    updates,        \* number of sync_metrics updates made (bounds the run)
    default_settings, \* config.core.scaler.service_defaults: [min_instances]
    catalog,        \* datastore.list_all_services: name -> service entry
    stage,          \* the service stage hash: name -> Off / Update / Running
    spc,            \* sync_services: "sleep" or inside the loop of a cycle
    listing,        \* sync_services: the services listed for this cycle
    idx,            \* sync_services: index of the next listed service
    current_services, \* sync_services: profile names at the start of the cycle
    discovered_services, \* sync_services: names visited so far
    cycle,          \* what the current cycle did and started from (history)
    error_count,    \* ScalerServer.error_count: name -> list of timestamps
    service_delta,  \* enabled=False updates written to the datastore, per name
    reports,        \* handle_service_error calls per name (history)
    now,            \* time.time()
    raised,         \* outcome of the last handle_service_error call
    running,        \* CoreBase.running / the stopping event: FALSE once stop() ran
    threads,        \* try_run: worker name -> "none", "alive" or "exited"
    sup,            \* try_run: position of the supervisor
    beat,           \* export_metrics called by the supervisor: parity of its passes
    main_loop_exit, \* the main_loop_exit event
    stopper,        \* stop(): position of the caller
    late,           \* a worker was started after the stop flag was set (history)
    status_table,   \* the status table: the hosts it holds
    bad_containers, \* flush_service_status: the flagged hosts
    pass,           \* what the last pass of flush_service_status saw and did (history)
    queue,          \* profile.queue.length(): name -> queued messages
    script,         \* the scripted update calls made so far (history)
    reaper,         \* process_timeouts: its queue, executor, locals and effects
    ingester        \* IngesterInternals.try_run: flag, tasks, position, counters

profileVars == <<profiles, order, last>>
allocVars == <<apc, targets, futures, tick, ran>>
syncVars == <<catalog, stage, spc, listing, idx, current_services,
              discovered_services, cycle>>
errVars == <<error_count, service_delta, reports, now, raised>>
supVars == <<running, threads, sup, beat, main_loop_exit, stopper, late>>
janVars == <<status_table, bad_containers, pass>>
auxVars == <<reaper, ingester>>
extVars == <<supVars, janVars, queue, script, auxVars>>
vars == <<profiles, order, target, cluster, last, apc, targets, futures, tick,
          changed, ran, updates, default_settings, catalog, stage, spc, listing,
          idx, current_services, discovered_services, cycle, error_count,
          service_delta, reports, now, raised, running, threads, sup, beat,
          main_loop_exit, stopper, late, status_table, bad_containers, pass,
          queue, script, reaper, ingester>>

-----------------------------------------------------------------------------
(* Bounds of the model *)

Services == {"A", "B"}

MaxFloor == 2       \* configured min_instances range 0..MaxFloor
MaxCap == 1         \* configured licence counts 1..MaxCap (and unbounded)
MaxInstances == 1   \* observed replica counts 0..MaxInstances
MaxDelta == 2       \* seconds between two updates 0..MaxDelta
MaxTarget == 1      \* controller target found when a profile is added
MaxCpu == 3         \* cluster cpu capacity 0..MaxCpu
MaxMem == 3         \* cluster memory capacity 0..MaxMem
MaxUpdates == 2     \* sync_metrics updates in one run of the scaling loop

-----------------------------------------------------------------------------
(* Arithmetic helpers *)

Max(a, b) == IF a >= b THEN a ELSE b
Min(a, b) == IF a <= b THEN a ELSE b
Abs(a) == IF a >= 0 THEN a ELSE -a

\* math.copysign(mag, s) for mag >= 0
copysign(mag, s) == IF s < 0 THEN -mag ELSE mag

\* float('inf') of ServiceProfile._max_instances
Inf == -1

target_duty_cycle == 9
DutyUnit == target_duty_cycle + 1
PressureUnit == target_duty_cycle * DutyUnit
leak_rate == PressureUnit \div DutyUnit

\* floor of the square root
ISqrt(x) == CHOOSE r \in 0..x : r * r <= x /\ (r + 1) * (r + 1) > x

\* math.sqrt(backlog / self.backlog), in pressure units
SqrtRatio(backlog, ref) == ISqrt((backlog * PressureUnit * PressureUnit) \div ref)

-----------------------------------------------------------------------------
(* ServiceProfile *)

\* ServiceProfile.__init__
ServiceProfile(min_instances, max_instances, growth, shrink, backlog, cpu, ram) ==
    [ min_floor         |-> Max(0, min_instances),
      min_instances     |-> Max(0, min_instances),
      max_cap           |-> IF max_instances # 0 THEN Max(0, max_instances) ELSE Inf,
      desired_instances |-> 0,
      running_instances |-> 0,
      pressure          |-> 0,
      growth_threshold  |-> Abs(growth),
      shrink_threshold  |-> -Abs(shrink),
      backlog           |-> backlog,
      cpu               |-> cpu,
      ram               |-> ram ]

\* ServiceProfile.max_instances (property)
max_instances(p) ==
    IF p.max_cap = Inf THEN p.running_instances + 2
    ELSE Min(p.max_cap, p.running_instances + 2)

\* ServiceProfile.instance_limit (property)
instance_limit(p) == IF p.max_cap = Inf THEN 0 ELSE p.max_cap

\* the effective minimum without the backlog term
EffectiveMin_FloorOnly(p, backlog) == p.min_floor

\* update, line 150: the effective minimum
EffectiveMin(p, backlog) == Max(p.min_floor, IF backlog # 0 THEN 1 ELSE 0)

\* update, line 151: clamp of desired_instances
ClampDesired(mn, mx, desired) == Max(mn, Min(mx, desired))

\* lines 154-161 without the duty cycle term of line 158
PressureAfterLeak_NoDuty(p, delta, backlog, duty_cycle) ==
    LET p1 == p.pressure + delta * SqrtRatio(backlog, p.backlog)
        leak == Min(leak_rate * delta, Abs(p1))
    IN  copysign(Abs(p1) - leak, p1)

\* lines 154-161 with a duty cycle term that is not scaled by delta
PressureAfterLeak_UnscaledDuty(p, delta, backlog, duty_cycle) ==
    LET p1 == p.pressure + delta * SqrtRatio(backlog, p.backlog)
        p2 == p1 - ((target_duty_cycle - duty_cycle) * PressureUnit)
                       \div target_duty_cycle
        leak == Min(leak_rate * delta, Abs(p2))
    IN  copysign(Abs(p2) - leak, p2)

\* lines 154-158 without the leak of lines 160-161
PressureAfterLeak_NoLeak(p, delta, backlog, duty_cycle) ==
    LET p1 == p.pressure + delta * SqrtRatio(backlog, p.backlog)
    IN  p1 - (delta * (target_duty_cycle - duty_cycle) * PressureUnit)
                 \div target_duty_cycle

\* update, lines 154-161: backlog pressure, duty cycle pressure, leak
PressureAfterLeak(p, delta, backlog, duty_cycle) ==
    LET p1 == p.pressure + delta * SqrtRatio(backlog, p.backlog)
        p2 == p1 - (delta * (target_duty_cycle - duty_cycle) * PressureUnit)
                       \div target_duty_cycle
        leak == Min(leak_rate * delta, Abs(p2))
    IN  copysign(Abs(p2) - leak, p2)

\* update without the clamp of lines 165-166
FloorClamp_Missing(desired, mn, pressure) == pressure

\* update, lines 165-166: no negative pressure at the floor
FloorClamp(desired, mn, pressure) ==
    IF desired = mn THEN Max(0, pressure) ELSE pressure

\* a growth step of two replicas
GrowStep_Two(mx, desired) == Min(mx, desired + 2)

\* update, line 169: one step up
GrowStep(mx, desired) == Min(mx, desired + 1)

\* update, line 173: one step down
ShrinkStep(mn, desired) == Max(mn, desired - 1)

\* update without the reset of line 170
update_NoGrowReset(p, delta, instances, backlog, duty_cycle) ==
    LET q    == [p EXCEPT !.running_instances = instances]
        mn   == EffectiveMin(q, backlog)
        mx   == max_instances(q)
        d0   == ClampDesired(mn, mx, p.desired_instances)
        pr0  == PressureAfterLeak(p, delta, backlog, duty_cycle)
        pr1  == FloorClamp(d0, mn, pr0)
        grow == pr1 >= p.growth_threshold
        d1   == IF grow THEN GrowStep(mx, d0) ELSE d0
        shr  == pr1 <= p.shrink_threshold
        d2   == IF shr THEN ShrinkStep(mn, d1) ELSE d1
        pr3  == IF shr THEN 0 ELSE pr1
    IN  [q EXCEPT !.min_instances = mn,
                  !.desired_instances = d2,
                  !.pressure = pr3]

\* ServiceProfile.update
update(p, delta, instances, backlog, duty_cycle) ==
    LET q    == [p EXCEPT !.running_instances = instances]
        mn   == EffectiveMin(q, backlog)
        mx   == max_instances(q)
        d0   == ClampDesired(mn, mx, p.desired_instances)
        pr0  == PressureAfterLeak(p, delta, backlog, duty_cycle)
        pr1  == FloorClamp(d0, mn, pr0)
        grow == pr1 >= p.growth_threshold
        d1   == IF grow THEN GrowStep(mx, d0) ELSE d0
        pr2  == IF grow THEN 0 ELSE pr1
        shr  == pr2 <= p.shrink_threshold
        d2   == IF shr THEN ShrinkStep(mn, d1) ELSE d1
        pr3  == IF shr THEN 0 ELSE pr2
    IN  [q EXCEPT !.min_instances = mn,
                  !.desired_instances = d2,
                  !.pressure = pr3]

\* which branches of update fire on these inputs (history only)
UpdateTrace(p, delta, instances, backlog, duty_cycle) ==
    LET q    == [p EXCEPT !.running_instances = instances]
        mn   == EffectiveMin(q, backlog)
        mx   == max_instances(q)
        d0   == ClampDesired(mn, mx, p.desired_instances)
        pr0  == PressureAfterLeak(p, delta, backlog, duty_cycle)
        pr1  == FloorClamp(d0, mn, pr0)
        grow == pr1 >= p.growth_threshold
        pr2  == IF grow THEN 0 ELSE pr1
    IN  [ op      |-> "update",
          clamped |-> pr0 < 0 /\ d0 = mn,
          grew    |-> grow,
          shrank  |-> pr2 <= p.shrink_threshold ]

NoCall == [op |-> "none", clamped |-> FALSE, grew |-> FALSE, shrank |-> FALSE]

-----------------------------------------------------------------------------
(* Configuration values used by the model (config.core.scaler.service_defaults) *)

BacklogRef == 2 * 2                 \* default_settings.backlog
GrowthCfg == 2 * PressureUnit       \* default_settings.growth
ShrinkCfg == PressureUnit           \* default_settings.shrink

Floors == 0..MaxFloor
LicenceCounts == 0..MaxCap          \* 0 means no licence limit
Deltas == 0..MaxDelta
InstanceCounts == 0..MaxInstances
Backlogs == {0, BacklogRef, 4 * BacklogRef}
DutyCycles == {0, target_duty_cycle}

\* ScalerServer.add_service: the profile as it enters the registry
add_service(profile, tgt) ==
    LET d == Max(tgt, profile.min_instances)
    IN  [profile EXCEPT !.desired_instances = d, !.running_instances = d]

-----------------------------------------------------------------------------
(* Controller (driver interface; the scaler only owns targets and profiles) *)

\* container_config.cpu_cores / ram_mb of each service
cpu_cores == [n \in Services |-> IF n = "A" THEN 1 ELSE 2]
ram_mb == [n \in Services |-> IF n = "A" THEN 2 ELSE 1]

RECURSIVE SumOver(_, _)
SumOver(f, S) ==
    IF S = {} THEN 0
    ELSE LET n == CHOOSE x \in S : TRUE IN f[n] + SumOver(f, S \ {n})

\* what one replica of a service reserves: the container_config of its profile
\* (given to the controller by add_profile) when it has one
CpuOf(n) == IF n \in DOMAIN profiles THEN profiles[n].cpu ELSE cpu_cores[n]
RamOf(n) == IF n \in DOMAIN profiles THEN profiles[n].ram ELSE ram_mb[n]

\* controller.free_cpu(): the pool minus what the targets reserve
free_cpu(tg) == cluster.cpu - SumOver([n \in Services |-> tg[n] * CpuOf(n)], Services)

\* controller.free_memory()
free_memory(tg) == cluster.mem - SumOver([n \in Services |-> tg[n] * RamOf(n)], Services)

-----------------------------------------------------------------------------
(* Pool and ScalerServer.update_scaling *)

Range(seq) == {seq[i] : i \in 1..Len(seq)}

\* Pool.call(self.controller.set_target, name, value)
Future(name, value, phase) ==
    [name |-> name, value |-> value, phase |-> phase, done |-> FALSE,
     failed |-> FALSE]

\* Pool.finish can return: every submitted future has a result
AllDone(futs) == \A i \in 1..Len(futs) : futs[i].done

\* no future of the batch holds an exception
NoneFailed(futs) == \A i \in 1..Len(futs) : ~futs[i].failed

\* index of the future whose result() raises in Pool.finish (0 if none can
\* yet): finish pops the futures in submission order, so it raises at the
\* first failed one once all before it have completed
Raising(futs) ==
    IF \E i \in 1..Len(futs) :
           futs[i].failed /\ \A j \in 1..(i - 1) : futs[j].done /\ ~futs[j].failed
    THEN CHOOSE i \in 1..Len(futs) :
           futs[i].failed /\ \A j \in 1..(i - 1) : futs[j].done /\ ~futs[j].failed
    ELSE 0

\* every worker may enter its "with self.profiles_lock" block at any time
LockFree_Always == TRUE

\* profiles_lock (line 213) is free: update_scaling holds it from line 411 to
\* the end of its tick, every other holder takes and releases it in one step
LockFree == apc \in {"idle", "dead"}

\* a release test that never holds
WantsLess_Never(tg, p) == FALSE

\* line 426: the profile wants to release resources
WantsLess(tg, p) == tg > p.desired_instances

\* the comparison of line 437 the wrong way round
BelowMinimum_Reversed(tg, p) == tg > p.min_instances

\* the comparison of line 437 off by one
BelowMinimum_OffByOne(tg, p) == tg + 1 < p.min_instances

\* line 437: the profile is not meeting its minimum
BelowMinimum(tg, p) == tg < p.min_instances

\* the test of lines 455/459 without the cpu comparison
Fits_RamOnly(p, fc, fm) == p.ram <= fm

\* lines 455/459: the profile's container fits the remaining resources
Fits(p, fc, fm) == p.cpu <= fc /\ p.ram <= fm

\* trim without the resource test of line 459
trim_DesireOnly(prof, tg, fc, fm) ==
    SelectSeq(prof, LAMBDA n : profiles[n].desired_instances > tg[n])

\* trim(prof), lines 453-460
trim(prof, tg, fc, fm) ==
    SelectSeq(prof, LAMBDA n : /\ profiles[n].desired_instances > tg[n]
                               /\ Fits(profiles[n], fc, fm))

\* index of the first element of prof with the least controller target
LeastIndex(prof) ==
    CHOOSE i \in 1..Len(prof) :
        /\ \A j \in 1..Len(prof) : target[prof[i]] <= target[prof[j]]
        /\ \A j \in 1..(i - 1) : target[prof[j]] > target[prof[i]]

RemoveAt(seq, i) == SubSeq(seq, 1, i - 1) \o SubSeq(seq, i + 1, Len(seq))

\* profiles.sort(key=lambda _p: self.controller.get_target(_p.name)), line 466
\* (list.sort is stable)
RECURSIVE SortByTarget(_)
SortByTarget(prof) ==
    IF prof = <<>> THEN <<>>
    ELSE LET i == LeastIndex(prof)
         IN  <<prof[i]>> \o SortByTarget(RemoveAt(prof, i))

\* the grant loop, lines 464-475
RECURSIVE GrantLoop(_, _, _, _, _)
GrantLoop(prof, tg, fc, fm, log) ==
    IF prof = <<>>
    THEN [targets |-> tg, free_cpu |-> fc, free_memory |-> fm, grants |-> log]
    ELSE LET sorted == SortByTarget(prof)
             first  == sorted[1]
             fm2    == fm - profiles[first].ram
             fc2    == fc - profiles[first].cpu
             tg2    == [tg EXCEPT ![first] = @ + 1]
         IN  GrantLoop(trim(sorted, tg2, fc2, fm2), tg2, fc2, fm2,
                       Append(log, first))

NoTick == [free_cpu0 |-> 0, free_mem0 |-> 0, free_cpu3 |-> 0, free_mem3 |-> 0,
           snapshot |-> <<>>, grants |-> <<>>, writes |-> 0,
           back_to_back |-> FALSE]

\* lines 409-412: take profiles_lock, read every profile's target
AllocBegin ==
    /\ apc = "idle"
    /\ apc' = "phase1"
    /\ targets' = [n \in DOMAIN profiles |-> target[n]]
    /\ tick' = [NoTick EXCEPT !.free_cpu0 = free_cpu(target),
                              !.free_mem0 = free_memory(target),
                              !.snapshot = [n \in DOMAIN profiles |-> target[n]],
                              !.back_to_back = ran /\ ~changed]
    /\ UNCHANGED <<profileVars, target, cluster, futures, changed, ran, updates,
                   default_settings, extVars, syncVars, errVars>>

\* lines 424-430: phase 1, submit the releases
AllocRelease ==
    /\ apc = "phase1"
    /\ LET sel == SelectSeq(order, LAMBDA n : WantsLess(targets[n], profiles[n]))
       IN  /\ futures' = futures \o
                  [k \in 1..Len(sel) |->
                      Future(sel[k], profiles[sel[k]].desired_instances, 1)]
           /\ targets' = [n \in DOMAIN targets |->
                            IF WantsLess(targets[n], profiles[n])
                            THEN profiles[n].desired_instances ELSE targets[n]]
           /\ tick' = [tick EXCEPT !.writes = @ + Len(sel)]
    /\ apc' = "phase2"
    /\ UNCHANGED <<profileVars, target, cluster, changed, ran, updates,
                   default_settings, extVars, syncVars, errVars>>

\* lines 436-441: phase 2, submit the raises to the minimum; the loop is inside
\* the same "with pool" block as phase 1
AllocFloor ==
    /\ apc = "phase2"
    /\ LET sel == SelectSeq(order, LAMBDA n : BelowMinimum(targets[n], profiles[n]))
       IN  /\ futures' = futures \o
                  [k \in 1..Len(sel) |->
                      Future(sel[k], profiles[sel[k]].min_instances, 2)]
           /\ targets' = [n \in DOMAIN targets |->
                            IF BelowMinimum(targets[n], profiles[n])
                            THEN profiles[n].min_instances ELSE targets[n]]
           /\ tick' = [tick EXCEPT !.writes = @ + Len(sel)]
    /\ apc' = "drain"
    /\ UNCHANGED <<profileVars, target, cluster, changed, ran, updates,
                   default_settings, extVars, syncVars, errVars>>

\* a pool thread runs one submitted controller.set_target(name, value)
PoolRun ==
    \E i \in 1..Len(futures) :
        /\ ~futures[i].done
        /\ target' = [target EXCEPT ![futures[i].name] = futures[i].value]
        /\ futures' = [futures EXCEPT ![i].done = TRUE]
        /\ UNCHANGED <<profileVars, cluster, apc, targets, tick, changed, ran, updates,
                   default_settings, extVars, syncVars, errVars>>

\* Pool.__exit__ -> finish() at the end of the first "with pool" block
AllocDrain ==
    /\ apc = "drain"
    /\ AllDone(futures)
    /\ NoneFailed(futures)
    /\ futures' = <<>>
    /\ apc' = "phase3"
    /\ UNCHANGED <<profileVars, target, cluster, targets, tick, changed, ran, updates,
                   default_settings, extVars, syncVars, errVars>>

\* lines 449-475: phase 3, read the free resources and grant replicas
AllocGrow ==
    /\ apc = "phase3"
    /\ LET fc == free_cpu(target)
           fm == free_memory(target)
           r  == GrantLoop(trim(order, targets, fc, fm), targets, fc, fm, <<>>)
       IN  /\ targets' = r.targets
           /\ tick' = [tick EXCEPT !.free_cpu3 = fc, !.free_mem3 = fm,
                                   !.grants = r.grants]
    /\ apc' = "apply"
    /\ UNCHANGED <<profileVars, target, cluster, futures, changed, ran, updates,
                   default_settings, extVars, syncVars, errVars>>

\* lines 478-483: submit every target that differs from the controller's
AllocApply ==
    /\ apc = "apply"
    /\ LET sel == SelectSeq(order, LAMBDA n : targets[n] # target[n])
       IN  /\ futures' = futures \o
                  [k \in 1..Len(sel) |-> Future(sel[k], targets[sel[k]], 3)]
           /\ tick' = [tick EXCEPT !.writes = @ + Len(sel)]
    /\ apc' = "finish"
    /\ UNCHANGED <<profileVars, target, cluster, targets, changed, ran, updates,
                   default_settings, extVars, syncVars, errVars>>

\* Pool.__exit__ of the second "with pool" block; profiles_lock is released
AllocEnd ==
    /\ apc = "finish"
    /\ AllDone(futures)
    /\ NoneFailed(futures)
    /\ futures' = <<>>
    /\ apc' = "idle"
    /\ targets' = <<>>
    /\ tick' = NoTick
    /\ ran' = TRUE
    /\ changed' = FALSE
    /\ UNCHANGED <<profileVars, target, cluster, updates,
                   default_settings, extVars, syncVars, errVars>>

\* a pool thread runs one submitted controller.set_target(name, value), which
\* raises without changing the target
PoolFail ==
    \E i \in 1..Len(futures) :
        /\ ~futures[i].done
        /\ NoneFailed(futures)
        /\ futures' = [futures EXCEPT ![i].done = TRUE, ![i].failed = TRUE]
        /\ UNCHANGED <<profileVars, target, cluster, apc, targets, tick, changed,
                       ran, updates, default_settings, extVars, syncVars, errVars>>

\* Pool.finish (lines 72-74) re-raises the exception of a future: it leaves
\* both "with" blocks, which releases profiles_lock, and ends update_scaling;
\* the futures behind the raising one stay submitted to the executor
AllocAbort ==
    /\ apc \in {"drain", "finish"}
    /\ Raising(futures) # 0
    /\ futures' = SubSeq(futures, Raising(futures) + 1, Len(futures))
    /\ apc' = "dead"
    /\ targets' = <<>>
    /\ tick' = NoTick
    /\ UNCHANGED <<profileVars, target, cluster, changed, ran, updates,
                   default_settings, extVars, syncVars, errVars>>

-----------------------------------------------------------------------------
(* ScalerServer.sync_metrics: the profile loop (under profiles_lock) *)

export_interval == MaxDelta     \* config.core.metrics.export_interval

\* lines 526-533: the aggregator has a reading for profile n
MetricsUpdateOf(n, instances, backlog, duty_cycle) ==
    /\ LockFree
    /\ n \in DOMAIN profiles
    /\ profiles' = [profiles EXCEPT
          ![n] = update(@, export_interval, instances, backlog, duty_cycle)]
    /\ changed' = TRUE
    /\ UNCHANGED <<order, last, target, cluster, allocVars,
               default_settings, extVars, syncVars, errVars>>

\* lines 536-547: nothing is running and nothing is wanted for profile n, look
\* at the queue
MetricsWakeUpOf(n, queue_length) ==
    /\ LockFree
    /\ n \in DOMAIN profiles
    /\ target[n] = 0
    /\ profiles[n].desired_instances = 0
    /\ profiles' = [profiles EXCEPT
          ![n] = update(@, export_interval, 0, queue_length, target_duty_cycle)]
    /\ changed' = TRUE
    /\ UNCHANGED <<order, last, target, cluster, allocVars,
               default_settings, extVars, syncVars, errVars>>

\* the regular update of some profile, on any reading and queue length
MetricsUpdate ==
    \E n \in DOMAIN profiles, instances \in {0, MaxInstances},
       backlog \in {0, 4 * BacklogRef}, duty_cycle \in DutyCycles :
        /\ updates < MaxUpdates
        /\ MetricsUpdateOf(n, instances, backlog, duty_cycle)
        /\ updates' = updates + 1

\* the synthesized update of some profile, on any queue length
MetricsWakeUp ==
    \E n \in DOMAIN profiles, queue_length \in {0, BacklogRef} :
        /\ updates < MaxUpdates
        /\ MetricsWakeUpOf(n, queue_length)
        /\ updates' = updates + 1

\* the regular update of some profile, reading profile.queue.length()
QueueUpdate ==
    \E n \in Services, instances \in {0, MaxInstances}, duty_cycle \in DutyCycles :
        /\ MetricsUpdateOf(n, instances, queue[n], duty_cycle)
        /\ UNCHANGED updates

\* the synthesized update of profile n, reading profile.queue.length()
QueueWakeUpOf(n) ==
    /\ MetricsWakeUpOf(n, queue[n])
    /\ UNCHANGED updates

QueueWakeUp == \E n \in Services : QueueWakeUpOf(n)

\* messages are queued or consumed; a queue that holds messages keeps some
QueueMoves ==
    \E n \in DOMAIN profiles, len \in {BacklogRef, 4 * BacklogRef} :
        /\ queue[n] # len
        /\ queue' = [queue EXCEPT ![n] = len]
        /\ UNCHANGED <<profileVars, target, cluster, allocVars, changed, updates,
                       default_settings, syncVars, errVars, auxVars, supVars, janVars,
                       script>>

\* the steps of update_scaling
Allocator ==
    \/ AllocBegin
    \/ AllocRelease
    \/ AllocFloor
    \/ AllocDrain
    \/ AllocGrow
    \/ AllocApply
    \/ AllocEnd

-----------------------------------------------------------------------------
(* ScalerServer.sync_services and stop_service *)

Stages == {"Off", "Update", "Running"}

\* a Service document of the catalog, as far as the synchronizer reads it
NotListed == [listed |-> FALSE, enabled |-> FALSE, licence_count |-> 0]
CatalogEntries ==
    {NotListed} \cup [listed : {TRUE}, enabled : BOOLEAN, licence_count : LicenceCounts]

NoCycle == [stopped |-> {}, zeroed |-> {}, deps_stopped |-> {},
            target0 |-> <<>>, stage0 |-> <<>>, failed |-> {}]

\* every ordering of a set of names
Orderings(S) ==
    {q \in [1..Cardinality(S) -> S] : \A i, j \in 1..Cardinality(S) : q[i] = q[j] => i = j}

\* dict.pop(name, None)
Pop(f, name) == [n \in DOMAIN f \ {name} |-> f[n]]

\* the state stop_service and the loop body work on
SyncState ==
    [profiles |-> profiles, order |-> order, target |-> target, stage |-> stage,
     stopped |-> cycle.stopped, zeroed |-> cycle.zeroed,
     deps_stopped |-> cycle.deps_stopped]

\* the test of line 401 without the controller target
StillScaled_ProfileOnly(st, name) == name \in DOMAIN st.profiles

\* line 401: the service is scaled or the controller still has a target for it
StillScaled(st, name) == name \in DOMAIN st.profiles \/ st.target[name] > 0

\* ScalerServer.stop_service(name, current_stage)
stop_service(st, name, current_stage) ==
    LET s1 == IF current_stage # "Off"
              THEN [st EXCEPT !.stage[name] = "Off",
                              !.deps_stopped = @ \cup {name}]
              ELSE st
        s2 == [s1 EXCEPT !.stopped = @ \cup {name}]
    IN  IF StillScaled(s2, name)
        THEN [s2 EXCEPT !.target[name] = 0,
                        !.profiles = Pop(@, name),
                        !.order = SelectSeq(@, LAMBDA m : m # name),
                        !.zeroed = @ \cup {name}]
        ELSE s2

\* lines 383-385: stop every stray service
RECURSIVE StopStrays(_, _)
StopStrays(st, strays) ==
    IF strays = {} THEN st
    ELSE LET n == CHOOSE x \in strays : TRUE
         IN  StopStrays(stop_service(st, n, st.stage[n]), strays \ {n})

\* lines 346-377: add the service to the registry or refresh its licence cap
AddOrUpdate(st, name, service) ==
    IF name \notin DOMAIN st.profiles
    THEN [st EXCEPT
            !.profiles = [n \in DOMAIN st.profiles \cup {name} |->
                IF n = name
                THEN add_service(ServiceProfile(default_settings.min_instances,
                                                service.licence_count, GrowthCfg,
                                                ShrinkCfg, BacklogRef,
                                                cpu_cores[name], ram_mb[name]),
                                 st.target[name])
                ELSE st.profiles[n]],
            !.order = Append(@, name)]
    ELSE [st EXCEPT !.profiles[name].max_cap =
                        IF service.licence_count = 0 THEN Inf
                        ELSE service.licence_count]

\* lines 383: current_services - set(discovered_services)
Strays(current, discovered) == current \ Range(discovered)

\* one iteration of the loop over the listed services, lines 300-385
VisitService(st, name, service, wait_for_update, strays) ==
    LET stage_read == st.stage[name]
        s1 == IF service.enabled /\ stage_read = "Off"
              THEN [st EXCEPT !.stage[name] =
                        IF wait_for_update THEN "Update" ELSE "Running"]
              ELSE st
    IN  IF ~service.enabled
        THEN stop_service(s1, name, stage_read)       \* continue
        ELSE LET s2 == IF stage_read = "Running"
                       THEN AddOrUpdate(s1, name, service)
                       ELSE s1
             IN  StopStrays(s2, strays)

\* lines 291-300: start of a cycle
SyncBegin ==
    /\ spc = "sleep"
    /\ LockFree
    /\ current_services' = DOMAIN profiles
    /\ discovered_services' = <<>>
    /\ LET listed == {n \in Services : catalog[n].listed}
       IN  \E q \in Orderings(listed) :
              listing' = [i \in 1..Len(q) |->
                            [name |-> q[i], service |-> catalog[q[i]]]]
    /\ idx' = 1
    /\ spc' = "loop"
    /\ cycle' = [NoCycle EXCEPT !.target0 = target, !.stage0 = stage]
    /\ UNCHANGED <<profileVars, target, cluster, allocVars, changed, updates,
                   default_settings, extVars, catalog, stage, errVars>>

\* the loop body for the next listed service
SyncVisit ==
    /\ spc = "loop"
    /\ LockFree
    /\ idx <= Len(listing)
    /\ \E wait_for_update \in BOOLEAN :
          LET name == listing[idx].name
              disc == Append(discovered_services, name)
              st   == VisitService(SyncState, name, listing[idx].service,
                                   wait_for_update,
                                   Strays(current_services, disc))
          IN  /\ discovered_services' = disc
              /\ profiles' = st.profiles
              /\ order' = st.order
              /\ target' = st.target
              /\ stage' = st.stage
              /\ cycle' = [cycle EXCEPT !.stopped = st.stopped,
                                        !.zeroed = st.zeroed,
                                        !.deps_stopped = st.deps_stopped]
    /\ idx' = idx + 1
    /\ UNCHANGED <<last, cluster, allocVars, changed, updates, default_settings, extVars,
                   catalog, spc, listing, current_services, errVars>>

\* line 387: the listing is exhausted, sleep until the next cycle
SyncEnd ==
    /\ spc = "loop"
    /\ idx > Len(listing)
    /\ spc' = "sleep"
    /\ listing' = <<>>
    /\ idx' = 1
    /\ current_services' = {}
    /\ discovered_services' = <<>>
    /\ cycle' = NoCycle
    /\ UNCHANGED <<profileVars, target, cluster, allocVars, changed, updates,
                   default_settings, extVars, catalog, stage, errVars>>

\* the catalog is edited (a service is added, removed, enabled, disabled)
CatalogChange ==
    /\ spc = "sleep"
    /\ \E n \in Services, e \in CatalogEntries :
          /\ e # catalog[n]
          /\ catalog' = [catalog EXCEPT ![n] = e]
    /\ UNCHANGED <<profileVars, target, cluster, allocVars, changed, updates,
                   default_settings, extVars, stage, spc, listing, idx, current_services,
                   discovered_services, cycle, errVars>>

\* a listed service is disabled or enabled again
CatalogToggle ==
    /\ spc = "sleep"
    /\ \E n \in Services :
          /\ catalog[n].listed
          /\ catalog' = [catalog EXCEPT ![n].enabled = ~@]
    /\ UNCHANGED <<profileVars, target, cluster, allocVars, changed, updates,
                   default_settings, extVars, stage, spc, listing, idx, current_services,
                   discovered_services, cycle, errVars>>

\* the updater finishes preparing a service in stage Update
UpdaterDone ==
    /\ \E n \in Services :
          /\ stage[n] = "Update"
          /\ stage' = [stage EXCEPT ![n] = "Running"]
    /\ UNCHANGED <<profileVars, target, cluster, allocVars, changed, updates,
                   default_settings, extVars, catalog, spc, listing, idx, current_services,
                   discovered_services, cycle, errVars>>

-----------------------------------------------------------------------------
(* ScalerServer.handle_service_error *)

MAXIMUM_SERVICE_ERRORS == 5
ERROR_EXPIRY_TIME == 3600

MaxReports == 6     \* handle_service_error calls per name
MaxClock == 2       \* clock steps in a run

CoreServices == {"dispatcher"}
ErrorNames == Services \cup CoreServices
ClockStep == ERROR_EXPIRY_TIME

\* error_count as a defaultdict(list): every name has an entry
HasEntry_Default(ec, name) == TRUE

\* self.error_count[service_name] on a plain dict: KeyError unless the key exists
HasEntry(ec, name) == name \in DOMAIN ec

EntryOf(ec, name) == IF name \in DOMAIN ec THEN ec[name] ELSE <<>>

\* lines 494-497: forget the errors older than ERROR_EXPIRY_TIME
Prune(times, t) == SelectSeq(times, LAMBDA x : x >= t - ERROR_EXPIRY_TIME)

\* handle_service_error(service_name), lines 492-503, at time t
handle_service_error(ec, name, t) ==
    IF ~HasEntry(ec, name)
    THEN [raised |-> "KeyError", error_count |-> ec, disabled |-> FALSE]
    ELSE LET kept == Prune(Append(EntryOf(ec, name), t), t)
         IN  IF Len(kept) >= MAXIMUM_SERVICE_ERRORS
             THEN [raised |-> "none", error_count |-> Pop(ec, name),
                   disabled |-> TRUE]
             ELSE [raised |-> "none",
                   error_count |-> [n \in DOMAIN ec \cup {name} |->
                                       IF n = name THEN kept ELSE ec[n]],
                   disabled |-> FALSE]

\* the state handle_service_error works on
ErrState ==
    [error_count |-> error_count, service_delta |-> service_delta,
     reports |-> reports, raised |-> raised]

\* one call of handle_service_error(name) and its datastore write
Report(e, name, t) ==
    LET h == handle_service_error(e.error_count, name, t)
    IN  [error_count   |-> h.error_count,
         service_delta |-> IF h.disabled
                           THEN [e.service_delta EXCEPT ![name] = @ + 1]
                           ELSE e.service_delta,
         reports       |-> [e.reports EXCEPT ![name] = @ + 1],
         raised        |-> h.raised]

\* a caller reports an error of a service
HandleServiceError ==
    \E name \in ErrorNames :
        /\ reports[name] < MaxReports
        /\ LET e == Report(ErrState, name, now)
           IN  /\ error_count' = e.error_count
               /\ service_delta' = e.service_delta
               /\ reports' = e.reports
               /\ raised' = e.raised
        /\ UNCHANGED <<profileVars, target, cluster, allocVars, changed, updates,
                       default_settings, extVars, syncVars, now>>

\* time passes
ClockTick ==
    /\ now < MaxClock * ClockStep
    /\ now' = now + ClockStep
    /\ UNCHANGED <<profileVars, target, cluster, allocVars, changed, updates,
                   default_settings, extVars, syncVars, error_count, service_delta, reports,
                   raised>>

-----------------------------------------------------------------------------
(* sync_services when a controller call raises *)

\* the controller calls of the loop body and of stop_service that may raise
ControllerCalls == {"prepare_network", "stop_containers", "set_target"}

\* stop_service(name, current_stage) when the controller call `fault` raises:
\* stop_containers raises at line 392, set_target at line 403
stop_service_raising(st, name, current_stage, fault) ==
    IF current_stage # "Off" /\ fault = "stop_containers"
    THEN [st |-> [st EXCEPT !.stopped = @ \cup {name}], raised |-> TRUE]
    ELSE LET s1 == IF current_stage # "Off"
                   THEN [st EXCEPT !.stage[name] = "Off",
                                   !.deps_stopped = @ \cup {name}]
                   ELSE st
             s2 == [s1 EXCEPT !.stopped = @ \cup {name}]
         IN  IF StillScaled(s2, name) /\ fault = "set_target"
             THEN [st |-> s2, raised |-> TRUE]
             ELSE [st |-> stop_service(st, name, current_stage), raised |-> FALSE]

\* lines 383-385 when a controller call raises: the loop ends at the first
\* stray whose stop raises
RECURSIVE StopStraysRaising(_, _, _)
StopStraysRaising(st, strays, fault) ==
    IF strays = {} THEN [st |-> st, raised |-> FALSE, name |-> ""]
    ELSE LET n == CHOOSE x \in strays : TRUE
             r == stop_service_raising(st, n, st.stage[n], fault)
         IN  IF r.raised THEN [st |-> r.st, raised |-> TRUE, name |-> n]
             ELSE StopStraysRaising(r.st, strays \ {n}, fault)

\* lines 307-377: the try block of one iteration
TryBlock(st, name, service, wait_for_update, fault) ==
    LET stage_read == st.stage[name]
    IN  IF service.enabled /\ stage_read = "Off" /\ fault = "prepare_network"
        THEN [st |-> st, raised |-> TRUE, continue |-> FALSE]
        ELSE LET s1 == IF service.enabled /\ stage_read = "Off"
                       THEN [st EXCEPT !.stage[name] =
                                 IF wait_for_update THEN "Update" ELSE "Running"]
                       ELSE st
             IN  IF ~service.enabled
                 THEN LET r == stop_service_raising(s1, name, stage_read, fault)
                      IN  [st |-> r.st, raised |-> r.raised,
                           continue |-> ~r.raised]
                 ELSE [st |-> IF stage_read = "Running"
                              THEN AddOrUpdate(s1, name, service) ELSE s1,
                       raised |-> FALSE, continue |-> FALSE]

\* one iteration of the loop, lines 300-385, when the controller call `fault`
\* raises wherever the iteration makes it. An exception of the try block goes
\* to the handler of lines 378-380; one of the stray loop leaves sync_services
\* and reaches log_crashes, lines 231-233. handle_service_error raising in
\* either handler ends the thread.
VisitServiceRaising(st, e, name, service, wait_for_update, strays, fault, t) ==
    LET body == TryBlock(st, name, service, wait_for_update, fault)
        e1   == IF body.raised THEN Report(e, name, t) ELSE e
        f1   == IF body.raised THEN {name} ELSE {}
    IN  IF body.raised /\ e1.raised = "KeyError"
        THEN [st |-> body.st, err |-> e1, failed |-> f1, alive |-> FALSE]
        ELSE IF body.continue
        THEN [st |-> body.st, err |-> e1, failed |-> f1, alive |-> TRUE]
        ELSE LET r == StopStraysRaising(body.st, strays, fault)
             IN  IF r.raised
                 THEN [st |-> r.st, err |-> Report(e1, r.name, t),
                       failed |-> f1 \cup {r.name}, alive |-> FALSE]
                 ELSE [st |-> r.st, err |-> e1, failed |-> f1, alive |-> TRUE]

\* the loop body for the next listed service while a controller call raises
SyncVisitRaising ==
    /\ spc = "loop"
    /\ LockFree
    /\ idx <= Len(listing)
    /\ \E wait_for_update \in BOOLEAN, fault \in ControllerCalls :
          LET name == listing[idx].name
              disc == Append(discovered_services, name)
              v    == VisitServiceRaising(SyncState, ErrState, name,
                                          listing[idx].service, wait_for_update,
                                          Strays(current_services, disc), fault,
                                          now)
          IN  /\ v.failed # {}
              /\ discovered_services' = disc
              /\ profiles' = v.st.profiles
              /\ order' = v.st.order
              /\ target' = v.st.target
              /\ stage' = v.st.stage
              /\ cycle' = [cycle EXCEPT !.stopped = v.st.stopped,
                                        !.zeroed = v.st.zeroed,
                                        !.deps_stopped = v.st.deps_stopped,
                                        !.failed = @ \cup v.failed]
              /\ error_count' = v.err.error_count
              /\ service_delta' = v.err.service_delta
              /\ reports' = v.err.reports
              /\ raised' = v.err.raised
              /\ spc' = IF v.alive THEN "loop" ELSE "dead"
    /\ idx' = idx + 1
    /\ UNCHANGED <<last, cluster, allocVars, changed, updates, default_settings,
                   extVars, catalog, listing, current_services, now>>

-----------------------------------------------------------------------------
(* ScalerServer.try_run and stop: the supervisor and its workers *)

\* expected_threads, lines 248-256
Workers == {"Log Container Events", "Process Timeouts", "Flush Service Status",
            "Service Configuration Sync", "Service Adjuster", "Import Metrics",
            "Export Metrics"}

\* a wait that never reports the stop flag
sleep_IgnoresStop(run) == TRUE

\* ScalerServer.sleep, lines 221-223: the wait returns self.running
sleep(run) == run

\* line 260: while self.running
SupCheck ==
    /\ sup = "check"
    /\ sup' = IF running THEN "reap" ELSE "join"
    /\ UNCHANGED <<profileVars, target, cluster, allocVars, changed, updates,
                   default_settings, syncVars, errVars, auxVars, janVars, queue, script,
                   running, threads, beat, main_loop_exit, stopper, late>>

\* lines 262-265: forget the threads that are no longer alive
SupReap ==
    /\ sup = "reap"
    /\ threads' = [w \in Workers |->
                      IF threads[w] = "exited" THEN "none" ELSE threads[w]]
    /\ sup' = "start"
    /\ UNCHANGED <<profileVars, target, cluster, allocVars, changed, updates,
                   default_settings, syncVars, errVars, auxVars, janVars, queue, script,
                   running, beat, main_loop_exit, stopper, late>>

\* lines 268-272: start every expected thread that is missing
SupStart ==
    /\ sup = "start"
    /\ threads' = [w \in Workers |->
                      IF threads[w] = "none" THEN "alive" ELSE threads[w]]
    /\ late' = (late \/ (~running /\ \E w \in Workers : threads[w] = "none"))
    /\ sup' = "export"
    /\ UNCHANGED <<profileVars, target, cluster, allocVars, changed, updates,
                   default_settings, syncVars, errVars, auxVars, janVars, queue, script,
                   running, beat, main_loop_exit, stopper>>

\* lines 275-276: heartbeat, then the supervisor itself calls export_metrics(),
\* whose loop (line 584) makes one more pass while the wait returns True
SupExportPass ==
    /\ sup = "export"
    /\ sleep(running)
    /\ beat' = 1 - beat
    /\ UNCHANGED <<profileVars, target, cluster, allocVars, changed, updates,
                   default_settings, syncVars, errVars, auxVars, janVars, queue, script,
                   running, threads, sup, main_loop_exit, stopper, late>>

\* line 584: the wait returns False, export_metrics() returns to try_run
SupExportReturn ==
    /\ sup = "export"
    /\ ~sleep(running)
    /\ sup' = "sleep"
    /\ UNCHANGED <<profileVars, target, cluster, allocVars, changed, updates,
                   default_settings, syncVars, errVars, auxVars, janVars, queue, script,
                   running, threads, beat, main_loop_exit, stopper, late>>

\* line 277: self.sleep(2)
SupSleep ==
    /\ sup = "sleep"
    /\ sup' = "check"
    /\ UNCHANGED <<profileVars, target, cluster, allocVars, changed, updates,
                   default_settings, syncVars, errVars, auxVars, janVars, queue, script,
                   running, threads, beat, main_loop_exit, stopper, late>>

\* lines 279-282: join every thread, then set main_loop_exit
SupJoin ==
    /\ sup = "join"
    /\ \A w \in Workers : threads[w] # "alive"
    /\ sup' = "done"
    /\ main_loop_exit' = TRUE
    /\ UNCHANGED <<profileVars, target, cluster, allocVars, changed, updates,
                   default_settings, syncVars, errVars, auxVars, janVars, queue, script,
                   running, threads, beat, stopper, late>>

\* a worker's loop (while self.sleep(...) / while self.running) ends at its
\* next wait once the flag is set, and its thread ends
WorkerLeaves ==
    \E w \in Workers :
        /\ threads[w] = "alive"
        /\ ~sleep(running)
        /\ threads' = [threads EXCEPT ![w] = "exited"]
        /\ UNCHANGED <<profileVars, target, cluster, allocVars, changed, updates,
                       default_settings, syncVars, errVars, auxVars, janVars, queue, script,
                       running, sup, beat, main_loop_exit, stopper, late>>

\* a worker raises; log_crashes (lines 225-236) logs it and the thread ends
WorkerCrashes ==
    \E w \in Workers :
        /\ threads[w] = "alive"
        /\ threads' = [threads EXCEPT ![w] = "exited"]
        /\ UNCHANGED <<profileVars, target, cluster, allocVars, changed, updates,
                       default_settings, syncVars, errVars, auxVars, janVars, queue, script,
                       running, sup, beat, main_loop_exit, stopper, late>>

\* stop(), lines 285-286: the stop flag is set
StopFlag ==
    /\ stopper = "idle"
    /\ running' = FALSE
    /\ stopper' = "waiting"
    /\ UNCHANGED <<profileVars, target, cluster, allocVars, changed, updates,
                   default_settings, syncVars, errVars, auxVars, janVars, queue, script,
                   threads, sup, beat, main_loop_exit, late>>

\* stop(), lines 287-288: main_loop_exit.wait(30) returns, controller.stop()
StopController ==
    /\ stopper = "waiting"
    /\ stopper' = "stopped"
    /\ UNCHANGED <<profileVars, target, cluster, allocVars, changed, updates,
                   default_settings, syncVars, errVars, auxVars, janVars, queue, script,
                   running, threads, sup, beat, main_loop_exit, late>>

\* the steps of try_run
Supervisor ==
    \/ SupCheck
    \/ SupReap
    \/ SupStart
    \/ SupExportPass
    \/ SupExportReturn
    \/ SupSleep
    \/ SupJoin

-----------------------------------------------------------------------------
(* ScalerServer.flush_service_status *)

\* the hosts that may appear in the status table
Hosts == {"h1", "h2"}

\* before the first pass: every host counts as seen, nothing removed
NoPass == [names |-> Hosts, prev_names |-> Hosts, removed |-> {}]

\* one pass of the loop, lines 619-629: names is what
\* controller.get_running_container_names() returns
FlushPass ==
    \E names \in SUBSET Hosts :
        LET absent  == status_table \ names
            removed == absent \cap bad_containers
        IN  /\ status_table' = status_table \ removed
            /\ bad_containers' = (bad_containers \ removed) \cup (absent \ removed)
            /\ pass' = [names |-> names, prev_names |-> pass.names,
                        removed |-> removed]
            /\ UNCHANGED <<profileVars, target, cluster, allocVars, changed,
                           updates, default_settings, syncVars, errVars, auxVars, supVars,
                           queue, script>>

\* a service container writes its status: the host enters the status table
StatusWrite ==
    \E h \in Hosts :
        /\ h \notin status_table
        /\ status_table' = status_table \cup {h}
        /\ UNCHANGED <<profileVars, target, cluster, allocVars, changed,
                       updates, default_settings, syncVars, errVars, auxVars, supVars,
                       bad_containers, pass, queue, script>>

\* sync_metrics, lines 517-518 (or the TTL of the hash): an entry that expired
\* long ago leaves the status table
StatusExpire ==
    \E h \in status_table :
        /\ status_table' = status_table \ {h}
        /\ UNCHANGED <<profileVars, target, cluster, allocVars, changed,
                       updates, default_settings, syncVars, errVars, auxVars, supVars,
                       bad_containers, pass, queue, script>>

-----------------------------------------------------------------------------
(* ScalerServer.process_timeouts *)

Containers == {"c1", "c2"}

\* the messages of scaler_timeout_queue
Messages == [service : Services, container : Containers]

\* how Executor.submit takes its first parameter: by name too (Python up to
\* 3.8), or by position only (from Python 3.9 on)
Builds == {"keyword", "positional_only"}

NoReaper == [build |-> "keyword", alive |-> TRUE, queue |-> {}, popped |-> {},
             executor |-> {}, futures |-> <<>>,
             calls |-> [m \in Messages |-> 0], raised |-> 0, logged |-> 0]

\* line 581: what pool.submit(fn=self.controller.stop_container,
\* args=(message['service'], message['container'])) hands to the executor: no
\* positional argument and the keyword argument args
Submitted(m) ==
    [fn |-> "stop_container", args |-> <<>>,
     kwargs |-> [args |-> <<m.service, m.container>>]]

\* a message is put on the timeout queue
ReaperEnqueue ==
    \E m \in Messages :
        /\ m \notin reaper.queue \cup reaper.popped
        /\ reaper' = [reaper EXCEPT !.queue = @ \cup {m}]
        /\ UNCHANGED <<profileVars, target, cluster, allocVars, changed, updates,
                       default_settings, syncVars, errVars, supVars, janVars,
                       queue, script, ingester>>

\* one pass of the loop of lines 567-581 that pops a message: the finished
\* futures of the local list are logged and kept (lines 569-574; nothing is
\* ever appended to the list), then the message is submitted; where submit
\* takes fn by position only, the call raises TypeError and ends the worker
ReaperPass ==
    \E m \in reaper.queue :
        /\ reaper.alive
        /\ running
        /\ LET finished == SelectSeq(reaper.futures, LAMBDA f : f.done)
               failed   == SelectSeq(finished, LAMBDA f : f.exception)
               r1 == [reaper EXCEPT !.futures = finished,
                                    !.logged = @ + Len(failed),
                                    !.queue = @ \ {m},
                                    !.popped = @ \cup {m}]
           IN  reaper' = IF reaper.build = "keyword"
                         THEN [r1 EXCEPT !.executor = @ \cup {Submitted(m)}]
                         ELSE [r1 EXCEPT !.alive = FALSE]
        /\ UNCHANGED <<profileVars, target, cluster, allocVars, changed, updates,
                       default_settings, syncVars, errVars, supVars, janVars,
                       queue, script, ingester>>

\* a thread of the executor runs a submitted call fn(*args, **kwargs):
\* controller.stop_container takes (service, container), any other call of it
\* raises TypeError, which stays in the future
ReaperTask ==
    \E t \in reaper.executor :
        /\ reaper' =
              IF Len(t.args) = 2 /\ t.kwargs = <<>>
              THEN [reaper EXCEPT
                      !.executor = @ \ {t},
                      !.calls[[service |-> t.args[1], container |-> t.args[2]]] = @ + 1]
              ELSE [reaper EXCEPT !.executor = @ \ {t}, !.raised = @ + 1]
        /\ UNCHANGED <<profileVars, target, cluster, allocVars, changed, updates,
                       default_settings, syncVars, errVars, supVars, janVars,
                       queue, script, ingester>>

\* line 567: the loop ends when the server is no longer running
ReaperExit ==
    /\ reaper.alive
    /\ ~running
    /\ reaper' = [reaper EXCEPT !.alive = FALSE]
    /\ UNCHANGED <<profileVars, target, cluster, allocVars, changed, updates,
                   default_settings, syncVars, errVars, supVars, janVars,
                   queue, script, ingester>>

-----------------------------------------------------------------------------
(* IngesterInternals.try_run *)

TaskNames == <<"timeouts", "retries">>

\* error_limit of line 170
ErrorLimit == 4

\* a handle is "none" (no entry in handles) or the state of its future:
\* "pending" (submitted, not yet picked up by a thread of the pool),
\* "running", "raised" (finished with an exception) or "returned"
NoIngester == [running |-> TRUE, pc |-> "loop",
               handles |-> [n \in Range(TaskNames) |-> "none"],
               error_limit |-> ErrorLimit, stops |-> 0, external |-> FALSE]

\* lines 177-190 for one task name; handles[name].running() is False for a
\* pending future, and exception(timeout=0) of a future that is not done
\* raises TimeoutError
CheckTask(g, name) ==
    LET h == g.handles[name]
    IN  IF g.pc # "loop" THEN g
        ELSE IF h = "none" THEN [g EXCEPT !.handles[name] = "pending"]
        ELSE IF h = "running" THEN g
        ELSE IF h = "pending" THEN [g EXCEPT !.pc = "raised"]
        ELSE IF h = "raised"
             THEN [g EXCEPT !.error_limit = @ - 1, !.handles[name] = "none"]
        ELSE [g EXCEPT !.handles[name] = "none"]

\* one pass of the for loop of lines 176-190, then time.sleep(0.5)
RECURSIVE CheckTasks(_, _)
CheckTasks(g, names) ==
    IF names = <<>> THEN g
    ELSE CheckTasks(CheckTask(g, Head(names)), Tail(names))

IngVars == <<profileVars, target, cluster, allocVars, changed, updates,
             default_settings, syncVars, errVars, supVars, janVars, queue,
             script, reaper>>

\* line 175: the loop condition holds, one more pass
IngPass ==
    /\ ingester.pc = "loop"
    /\ ingester.running
    /\ ingester.error_limit > 0
    /\ ingester' = CheckTasks(ingester, TaskNames)
    /\ ingester' # ingester
    /\ UNCHANGED IngVars

\* lines 175 and 193: the loop condition fails, self.stop()
IngLoopExit ==
    /\ ingester.pc = "loop"
    /\ ~ingester.running \/ ingester.error_limit <= 0
    /\ ingester' = [ingester EXCEPT !.running = FALSE, !.stops = 1,
                                    !.pc = "shutdown"]
    /\ UNCHANGED IngVars

\* line 172: leaving the "with" block waits for the tasks (shutdown(wait=True))
IngPoolExit ==
    /\ ingester.pc \in {"shutdown", "raised"}
    /\ \A n \in Range(TaskNames) : ingester.handles[n] \notin {"pending", "running"}
    /\ ingester' = [ingester EXCEPT !.pc = IF @ = "raised" THEN "crashed" ELSE "done"]
    /\ UNCHANGED IngVars

\* a thread of the pool picks the submitted task up
IngTaskStart ==
    \E n \in Range(TaskNames) :
        /\ ingester.handles[n] = "pending"
        /\ ingester' = [ingester EXCEPT !.handles[n] = "running"]
        /\ UNCHANGED IngVars

\* process_timeouts / process_retries: a queue operation raises
IngTaskRaises ==
    \E n \in Range(TaskNames) :
        /\ ingester.handles[n] = "running"
        /\ ingester.running
        /\ ingester' = [ingester EXCEPT !.handles[n] = "raised"]
        /\ UNCHANGED IngVars

\* process_timeouts / process_retries: "while server.running" ends
IngTaskReturns ==
    \E n \in Range(TaskNames) :
        /\ ingester.handles[n] = "running"
        /\ ~ingester.running
        /\ ingester' = [ingester EXCEPT !.handles[n] = "returned"]
        /\ UNCHANGED IngVars

\* the server is stopped from outside (signal handler calling stop())
IngStopped ==
    /\ ingester.running
    /\ ingester' = [ingester EXCEPT !.running = FALSE, !.external = TRUE]
    /\ UNCHANGED IngVars

-----------------------------------------------------------------------------
(* Scripted sequences of ServiceProfile.update calls *)

NoScript == [kind |-> "none", calls |-> 0, crossed |-> FALSE]

\* profile.update(delta, instances=min_instances, backlog=0,
\* duty_cycle=target_duty_cycle) on the profile of A; calls counts modulo 2
QuietUpdateOf(delta) ==
    LET p == profiles["A"]
    IN  /\ script.kind \in {"none", "quiet"}
        /\ profiles' = [profiles EXCEPT
               !["A"] = update(p, delta, p.min_instances, 0, target_duty_cycle)]
        /\ last' = UpdateTrace(p, delta, p.min_instances, 0, target_duty_cycle)
        /\ script' = [kind |-> "quiet", calls |-> 1 - script.calls,
                      crossed |-> FALSE]
        /\ UNCHANGED <<order, target, cluster, allocVars, changed, updates,
                       default_settings, syncVars, errVars, auxVars, supVars, janVars,
                       queue>>

QuietUpdate == \E delta \in Deltas : QuietUpdateOf(delta)

QuietUpdatePositive == \E delta \in Deltas \ {0} : QuietUpdateOf(delta)

\* the cold start scenario: ServiceProfile(min_instances=0, max_instances=5,
\* growth=60, shrink=-30, backlog=500) fed calls times with
\* update(delta=5, instances=0, backlog=500, duty_cycle=0)
S1 == [min_instances |-> 0, max_instances |-> 5, growth |-> 60, shrink |-> -30,
       backlog |-> 500, delta |-> 5, instances |-> 0, duty_cycle |-> 0,
       calls |-> 10]

S1Feed == [delta |-> S1.delta, instances |-> S1.instances,
           backlog |-> S1.backlog, duty_cycle |-> S1.duty_cycle]

\* the arguments a scripted feed repeats
Feeds == [delta : {S1.delta, 2 * S1.delta}, instances : {0, 1},
          backlog : {0, S1.backlog, 4 * S1.backlog},
          duty_cycle : {0, target_duty_cycle}]

\* one more call of the feed: profile.update(delta, instances, backlog,
\* duty_cycle) on the profile of A; crossed records pressure >= growth_threshold
FeedUpdate ==
    LET p == profiles["A"]
        f == script.feed
        t == UpdateTrace(p, f.delta, f.instances, f.backlog, f.duty_cycle)
    IN  /\ script.kind = "feed"
        /\ script.calls < S1.calls
        /\ profiles' = [profiles EXCEPT
               !["A"] = update(p, f.delta, f.instances, f.backlog, f.duty_cycle)]
        /\ last' = t
        /\ script' = [script EXCEPT !.calls = @ + 1,
                                    !.crossed = @ \/ t.grew]
        /\ UNCHANGED <<order, target, cluster, allocVars, changed, updates,
                       default_settings, syncVars, errVars, auxVars, supVars, janVars,
                       queue>>

-----------------------------------------------------------------------------
(* Parts of the initial state shared by the specifications *)

AllocAtRest ==
    /\ apc = "idle"
    /\ targets = <<>>
    /\ futures = <<>>
    /\ tick = NoTick
    /\ changed = FALSE
    /\ ran = FALSE
    /\ updates = 0

SyncAtRest ==
    /\ spc = "sleep"
    /\ listing = <<>>
    /\ idx = 1
    /\ current_services = {}
    /\ discovered_services = <<>>
    /\ cycle = NoCycle

\* ScalerServer.__init__, lines 183-184
ErrorsAtRest ==
    /\ error_count = <<>>
    /\ service_delta = [n \in ErrorNames |-> 0]
    /\ reports = [n \in ErrorNames |-> 0]
    /\ now = 0
    /\ raised = "none"

\* try_run, line 247-257, and __init__, lines 218-219: nothing started yet
SupAtRest ==
    /\ running = TRUE
    /\ threads = [w \in Workers |-> "none"]
    /\ sup = "check"
    /\ beat = 0
    /\ main_loop_exit = FALSE
    /\ stopper = "idle"
    /\ late = FALSE

\* flush_service_status, line 616, on an empty status table
JanAtRest ==
    /\ status_table = {}
    /\ bad_containers = {}
    /\ pass = NoPass

AuxAtRest ==
    /\ reaper = NoReaper
    /\ ingester = NoIngester

ExtAtRest ==
    /\ SupAtRest
    /\ JanAtRest
    /\ queue = [n \in Services |-> 0]
    /\ script = NoScript
    /\ AuxAtRest

-----------------------------------------------------------------------------
(* Specification Spec: the scaling loop (sync_metrics and update_scaling) on a  *)
(* registry holding every service                                              *)

Init ==
    /\ \E f \in Floors, lic \in [Services -> LicenceCounts],
          t \in [Services -> 0..MaxTarget] :
          /\ profiles = [n \in Services |->
                           add_service(ServiceProfile(f, lic[n], GrowthCfg, ShrinkCfg,
                                                      BacklogRef, cpu_cores[n],
                                                      ram_mb[n]), t[n])]
          /\ target = t
          /\ default_settings = [min_instances |-> f]
          /\ catalog = [n \in Services |->
                          [listed |-> TRUE, enabled |-> TRUE, licence_count |-> lic[n]]]
    /\ order = <<"A", "B">>
    /\ stage = [n \in Services |-> "Running"]
    /\ cluster \in [cpu : 0..MaxCpu, mem : {MaxMem}]
    /\ last = NoCall
    /\ AllocAtRest
    /\ SyncAtRest
    /\ ErrorsAtRest
    /\ ExtAtRest

Next ==
    \/ MetricsUpdate
    \/ MetricsWakeUp
    \/ AllocBegin
    \/ AllocRelease
    \/ AllocFloor
    \/ PoolRun
    \/ AllocDrain
    \/ AllocGrow
    \/ AllocApply
    \/ AllocEnd

Spec == Init /\ [][Next]_vars

-----------------------------------------------------------------------------
(* Specification SpecWake: the scaling loop on a registry holding service A,    *)
(* reading a queue that keeps its messages; the ingestor gets the registry lock *)
(* again and again, the allocator and its pool keep running                     *)

InitWake ==
    /\ \E f \in Floors, c \in LicenceCounts, t \in 0..MaxTarget :
          /\ profiles = [n \in {"A"} |->
                           add_service(ServiceProfile(f, c, GrowthCfg, ShrinkCfg,
                                                      BacklogRef, cpu_cores[n],
                                                      ram_mb[n]), t)]
          /\ target = [n \in Services |-> IF n = "A" THEN t ELSE 0]
          /\ default_settings = [min_instances |-> f]
          /\ catalog = [n \in Services |->
                          IF n = "A"
                          THEN [listed |-> TRUE, enabled |-> TRUE, licence_count |-> c]
                          ELSE NotListed]
    /\ order = <<"A">>
    /\ stage = [n \in Services |-> IF n = "A" THEN "Running" ELSE "Off"]
    /\ cluster \in [cpu : {0, MaxCpu}, mem : {MaxMem}]
    /\ last = NoCall
    /\ AllocAtRest
    /\ SyncAtRest
    /\ ErrorsAtRest
    /\ SupAtRest
    /\ JanAtRest
    /\ queue \in [Services -> {0, BacklogRef}]
    /\ queue["B"] = 0
    /\ script = NoScript
    /\ AuxAtRest

NextWake ==
    \/ QueueUpdate
    \/ QueueWakeUp
    \/ QueueMoves
    \/ AllocBegin
    \/ AllocRelease
    \/ AllocFloor
    \/ PoolRun
    \/ AllocDrain
    \/ AllocGrow
    \/ AllocApply
    \/ AllocEnd

SpecWake ==
    /\ InitWake
    /\ [][NextWake]_vars
    /\ \A n \in Services : SF_vars(QueueWakeUpOf(n))
    /\ WF_vars(Allocator)
    /\ WF_vars(PoolRun)

-----------------------------------------------------------------------------
(* Specification SpecS2: the allocator on the scenario "release first": A and B *)
(* need 2 cpu per replica and both want 2 replicas, the controller targets are  *)
(* A: 3 and B: 0, and 1 cpu is free                                             *)

S2Cpu == [n \in Services |-> 2]
S2Desired == [n \in Services |-> 2]
S2Targets == [n \in Services |-> IF n = "A" THEN 3 ELSE 0]
S2Ram == [n \in Services |-> 1]
S2Free == [cpu |-> 1, mem |-> 2]

\* a profile of the scenario: no floor, licence cap c, r replicas observed
S2Profile(n, c, r) ==
    [ServiceProfile(0, c, GrowthCfg, ShrinkCfg, BacklogRef, S2Cpu[n], S2Ram[n])
        EXCEPT !.desired_instances = S2Desired[n], !.running_instances = r]

InitS2 ==
    /\ \E c \in [Services -> {0, 2, 3}], r \in [Services -> 0..3] :
          /\ profiles = [n \in Services |-> S2Profile(n, c[n], r[n])]
          /\ catalog = [n \in Services |->
                          [listed |-> TRUE, enabled |-> TRUE, licence_count |-> c[n]]]
    /\ target = S2Targets
    /\ default_settings = [min_instances |-> 0]
    /\ order = <<"A", "B">>
    /\ stage = [n \in Services |-> "Running"]
    /\ \E spare \in 0..1 :
          cluster = [cpu |-> S2Free.cpu
                             + SumOver([n \in Services |-> S2Targets[n] * S2Cpu[n]],
                                       Services),
                     mem |-> S2Free.mem + spare
                             + SumOver([n \in Services |-> S2Targets[n] * S2Ram[n]],
                                       Services)]
    /\ last = NoCall
    /\ AllocAtRest
    /\ SyncAtRest
    /\ ErrorsAtRest
    /\ ExtAtRest

NextS2 ==
    \/ AllocBegin
    \/ AllocRelease
    \/ AllocFloor
    \/ PoolRun
    \/ AllocDrain
    \/ AllocGrow
    \/ AllocApply
    \/ AllocEnd

SpecS2 == InitS2 /\ [][NextS2]_vars

-----------------------------------------------------------------------------
(* Specification SpecProfile: one profile under ServiceProfile.update *)

InitProfile ==
    /\ \E f \in Floors, c \in LicenceCounts, t \in 0..MaxTarget :
          /\ profiles = [n \in {"A"} |->
                           add_service(ServiceProfile(f, c, GrowthCfg, ShrinkCfg,
                                                      BacklogRef, 1, 1), t)]
          /\ target = [n \in Services |-> IF n = "A" THEN t ELSE 0]
          /\ default_settings = [min_instances |-> f]
          /\ catalog = [n \in Services |->
                          IF n = "A"
                          THEN [listed |-> TRUE, enabled |-> TRUE, licence_count |-> c]
                          ELSE NotListed]
    /\ order = <<"A">>
    /\ stage = [n \in Services |-> IF n = "A" THEN "Running" ELSE "Off"]
    /\ cluster = [cpu |-> MaxCpu, mem |-> MaxMem]
    /\ last = NoCall
    /\ AllocAtRest
    /\ SyncAtRest
    /\ ErrorsAtRest
    /\ ExtAtRest

\* profile.update(delta, instances, backlog, duty_cycle) on the profile of A
ProfileUpdate ==
    \E delta \in Deltas, instances \in InstanceCounts,
       backlog \in Backlogs, duty_cycle \in DutyCycles :
        /\ profiles' = [profiles EXCEPT
                           !["A"] = update(@, delta, instances, backlog, duty_cycle)]
        /\ last' = UpdateTrace(profiles["A"], delta, instances, backlog, duty_cycle)
        /\ UNCHANGED <<order, target, cluster, allocVars, changed, updates,
                   default_settings, extVars, syncVars, errVars>>

NextProfile == ProfileUpdate

SpecProfile == InitProfile /\ [][NextProfile]_vars

-----------------------------------------------------------------------------
(* Specification SpecQuiet: any updates of one profile, followed by calls with  *)
(* no backlog, the target duty cycle and instances = min_instances that are     *)
(* repeated for ever                                                            *)

\* an update of the profile before the quiet calls begin
AnyUpdate == script.kind = "none" /\ ProfileUpdate

NextQuiet ==
    \/ AnyUpdate
    \/ QuietUpdate

SpecQuiet == InitProfile /\ [][NextQuiet]_vars /\ WF_vars(QuietUpdate)

-----------------------------------------------------------------------------
(* Specification SpecColdStart: a new profile under a repeated update call *)

InitColdStart ==
    /\ profiles = [n \in {"A"} |->
                     ServiceProfile(S1.min_instances, S1.max_instances,
                                    S1.growth * PressureUnit,
                                    S1.shrink * PressureUnit, S1.backlog, 1, 1)]
    /\ target = [n \in Services |-> 0]
    /\ default_settings = [min_instances |-> S1.min_instances]
    /\ catalog = [n \in Services |->
                    IF n = "A"
                    THEN [listed |-> TRUE, enabled |-> TRUE,
                          licence_count |-> S1.max_instances]
                    ELSE NotListed]
    /\ order = <<"A">>
    /\ stage = [n \in Services |-> IF n = "A" THEN "Running" ELSE "Off"]
    /\ cluster = [cpu |-> MaxCpu, mem |-> MaxMem]
    /\ last = NoCall
    /\ AllocAtRest
    /\ SyncAtRest
    /\ ErrorsAtRest
    /\ SupAtRest
    /\ JanAtRest
    /\ queue = [n \in Services |-> 0]
    /\ \E f \in Feeds :
          script = [kind |-> "feed", calls |-> 0, crossed |-> FALSE, feed |-> f]
    /\ AuxAtRest

NextColdStart == FeedUpdate

SpecColdStart == InitColdStart /\ [][NextColdStart]_vars

-----------------------------------------------------------------------------
(* Specification SpecSync: the synchronizer against a changing catalog *)

InitSync ==
    /\ profiles = <<>>
    /\ order = <<>>
    /\ target \in [Services -> 0..MaxTarget]
    /\ default_settings \in [min_instances : Floors]
    /\ catalog = [n \in Services |-> NotListed]
    /\ stage = [n \in Services |-> "Off"]
    /\ cluster = [cpu |-> MaxCpu, mem |-> MaxMem]
    /\ last = NoCall
    /\ AllocAtRest
    /\ SyncAtRest
    /\ ErrorsAtRest
    /\ ExtAtRest

NextSync ==
    \/ CatalogChange
    \/ UpdaterDone
    \/ SyncBegin
    \/ SyncVisit
    \/ SyncEnd

SpecSync == InitSync /\ [][NextSync]_vars

-----------------------------------------------------------------------------
(* Specification SpecGrant: the allocator on profiles that want up to three  *)
(* replicas more than they have, with containers that cost one cpu and one   *)
(* unit of memory or nothing at all                                          *)

\* a profile of service n: no floor, no licence cap, cost c (cpu and ram),
\* d replicas wanted
GrantProfile(n, c, d) ==
    [ServiceProfile(0, 0, GrowthCfg, ShrinkCfg, BacklogRef, c, c)
        EXCEPT !.desired_instances = d, !.running_instances = d]

InitGrant ==
    /\ \E c \in [Services -> {0, 1}], d \in [Services -> 0..(MaxTarget + 2)],
          t \in [Services -> 0..MaxTarget], fc \in 0..MaxCpu :
          /\ profiles = [n \in Services |-> GrantProfile(n, c[n], d[n])]
          /\ target = t
          /\ cluster = [cpu |-> fc + SumOver([n \in Services |-> t[n] * c[n]],
                                             Services),
                        mem |-> MaxMem + SumOver([n \in Services |-> t[n] * c[n]],
                                                 Services)]
    /\ catalog = [n \in Services |->
                    [listed |-> TRUE, enabled |-> TRUE, licence_count |-> 0]]
    /\ default_settings = [min_instances |-> 0]
    /\ order = <<"A", "B">>
    /\ stage = [n \in Services |-> "Running"]
    /\ last = NoCall
    /\ AllocAtRest
    /\ SyncAtRest
    /\ ErrorsAtRest
    /\ ExtAtRest

NextGrant ==
    \/ AllocBegin
    \/ AllocRelease
    \/ AllocFloor
    \/ PoolRun
    \/ AllocDrain
    \/ AllocGrow
    \/ AllocApply
    \/ AllocEnd

SpecGrant == InitGrant /\ [][NextGrant]_vars

-----------------------------------------------------------------------------
(* Specification SpecReaper: process_timeouts on either kind of build *)

InitReaper ==
    /\ profiles = <<>>
    /\ order = <<>>
    /\ target = [n \in Services |-> 0]
    /\ default_settings = [min_instances |-> 0]
    /\ catalog = [n \in Services |->
                    [listed |-> TRUE, enabled |-> TRUE, licence_count |-> 0]]
    /\ stage = [n \in Services |-> "Off"]
    /\ cluster = [cpu |-> MaxCpu, mem |-> MaxMem]
    /\ last = NoCall
    /\ AllocAtRest
    /\ SyncAtRest
    /\ ErrorsAtRest
    /\ SupAtRest
    /\ JanAtRest
    /\ queue = [n \in Services |-> 0]
    /\ script = NoScript
    /\ \E b \in Builds : reaper = [NoReaper EXCEPT !.build = b]
    /\ ingester = NoIngester

NextReaper ==
    \/ ReaperEnqueue
    \/ ReaperPass
    \/ ReaperTask
    \/ ReaperExit
    \/ StopFlag

SpecReaper == InitReaper /\ [][NextReaper]_vars

-----------------------------------------------------------------------------
(* Specification SpecIngester: IngesterInternals.try_run and its two tasks *)

InitIngester ==
    /\ profiles = <<>>
    /\ order = <<>>
    /\ target = [n \in Services |-> 0]
    /\ default_settings = [min_instances |-> 0]
    /\ catalog = [n \in Services |->
                    [listed |-> TRUE, enabled |-> TRUE, licence_count |-> 0]]
    /\ stage = [n \in Services |-> "Off"]
    /\ cluster = [cpu |-> MaxCpu, mem |-> MaxMem]
    /\ last = NoCall
    /\ AllocAtRest
    /\ SyncAtRest
    /\ ErrorsAtRest
    /\ SupAtRest
    /\ JanAtRest
    /\ queue = [n \in Services |-> 0]
    /\ script = NoScript
    /\ reaper = NoReaper
    /\ ingester = NoIngester

NextIngester ==
    \/ IngPass
    \/ IngLoopExit
    \/ IngPoolExit
    \/ IngTaskStart
    \/ IngTaskRaises
    \/ IngTaskReturns
    \/ IngStopped

SpecIngester == InitIngester /\ [][NextIngester]_vars

-----------------------------------------------------------------------------
(* Specification SpecLive: synchronizer, metric ingestor and allocator *)
(* together, with controller writes of the pool that may raise        *)

InitLive ==
    /\ profiles = [n \in Services |->
                     add_service(ServiceProfile(1, 0, GrowthCfg, ShrinkCfg,
                                                BacklogRef, cpu_cores[n],
                                                ram_mb[n]), 0)]
    /\ default_settings = [min_instances |-> 1]
    /\ target = [n \in Services |-> 0]
    /\ catalog = [n \in Services |->
                    [listed |-> TRUE, enabled |-> TRUE, licence_count |-> 0]]
    /\ order = <<"A", "B">>
    /\ stage = [n \in Services |-> "Running"]
    /\ cluster = [cpu |-> MaxCpu, mem |-> MaxMem]
    /\ last = NoCall
    /\ AllocAtRest
    /\ SyncAtRest
    /\ ErrorsAtRest
    /\ ExtAtRest

\* every profile has a floor of 1 here, so the branch of lines 536-547 (no
\* instance running and none desired) is never entered
NextLive ==
    \/ CatalogToggle
    \/ UpdaterDone
    \/ SyncBegin
    \/ SyncVisit
    \/ SyncEnd
    \/ MetricsUpdate
    \/ AllocBegin
    \/ AllocRelease
    \/ AllocFloor
    \/ PoolRun
    \/ PoolFail
    \/ AllocDrain
    \/ AllocGrow
    \/ AllocApply
    \/ AllocEnd
    \/ AllocAbort

SpecLive == InitLive /\ [][NextLive]_vars

-----------------------------------------------------------------------------
(* Specification SpecSyncFaults: the synchronizer when controller calls raise *)

NextSyncFaults ==
    \/ CatalogChange
    \/ UpdaterDone
    \/ SyncBegin
    \/ SyncVisit
    \/ SyncVisitRaising
    \/ SyncEnd

SpecSyncFaults == InitSync /\ [][NextSyncFaults]_vars

-----------------------------------------------------------------------------
(* Specification SpecErrors: error reports reaching handle_service_error *)

InitErrors ==
    /\ profiles = <<>>
    /\ order = <<>>
    /\ target = [n \in Services |-> 0]
    /\ default_settings = [min_instances |-> 0]
    /\ catalog = [n \in Services |->
                    [listed |-> TRUE, enabled |-> TRUE, licence_count |-> 0]]
    /\ stage = [n \in Services |-> "Off"]
    /\ cluster = [cpu |-> MaxCpu, mem |-> MaxMem]
    /\ last = NoCall
    /\ AllocAtRest
    /\ SyncAtRest
    /\ ErrorsAtRest
    /\ ExtAtRest

NextErrors ==
    \/ HandleServiceError
    \/ ClockTick

SpecErrors == InitErrors /\ [][NextErrors]_vars

-----------------------------------------------------------------------------
(* Specification SpecSupervisor: try_run, its workers and stop(). Every thread  *)
(* that can take a step eventually takes it.                                    *)

InitSupervisor == InitErrors

NextSupervisor ==
    \/ SupCheck
    \/ SupReap
    \/ SupStart
    \/ SupExportPass
    \/ SupExportReturn
    \/ SupSleep
    \/ SupJoin
    \/ WorkerLeaves
    \/ WorkerCrashes
    \/ StopFlag
    \/ StopController

SpecSupervisor ==
    /\ InitSupervisor
    /\ [][NextSupervisor]_vars
    /\ WF_vars(Supervisor)
    /\ WF_vars(WorkerLeaves)
    /\ WF_vars(StopController)

-----------------------------------------------------------------------------
(* Specification SpecJanitor: flush_service_status over a changing status table *)

InitJanitor == InitErrors

NextJanitor ==
    \/ FlushPass
    \/ StatusWrite
    \/ StatusExpire

SpecJanitor == InitJanitor /\ [][NextJanitor]_vars

-----------------------------------------------------------------------------
(* Claims about ServiceProfile.update *)

\* C1: after any sequence of update calls, min_instances <= desired_instances
\* <= max_instances (max_instances re-derived from the cap and running + 2).
C1_ProfileBounds ==
    \A n \in DOMAIN profiles :
        last.op = "update" =>
            /\ profiles[n].min_instances <= profiles[n].desired_instances
            /\ profiles[n].desired_instances <= max_instances(profiles[n])

\* C2: after every update call, desired_instances = min_instances implies
\* pressure >= 0.
C2_FloorPressure ==
    \A n \in DOMAIN profiles :
        last.op = "update" =>
            (profiles[n].desired_instances = profiles[n].min_instances
                => profiles[n].pressure >= 0)

\* C2 witness: an update whose leaked pressure was negative at the floor
C2_Witness ==
    /\ last.op = "update"
    /\ last.clamped
    /\ ~last.grew /\ ~last.shrank
    /\ profiles["A"].desired_instances = profiles["A"].min_instances
    /\ profiles["A"].pressure = 0

-----------------------------------------------------------------------------
(* Claims about the allocator (specification Spec) *)

\* C3: within one tick every Phase 1 set_target has completed before any
\* Phase 2 set_target is dispatched, and every Phase 2 write has completed
\* before Phase 3 reads the free resources.
C3_PhasesDrain ==
    /\ \A i, j \in 1..Len(futures) :
          (futures[i].phase = 1 /\ futures[j].phase = 2) => futures[i].done
    /\ apc = "phase3" => AllDone(futures)

\* cpu / ram the tick added on top of the targets it started from
AddedCpu ==
    SumOver([n \in Services |->
               IF n \in DOMAIN targets
               THEN Max(0, targets[n] - tick.snapshot[n]) * profiles[n].cpu
               ELSE 0], Services)
AddedRam ==
    SumOver([n \in Services |->
               IF n \in DOMAIN targets
               THEN Max(0, targets[n] - tick.snapshot[n]) * profiles[n].ram
               ELSE 0], Services)

\* C4 (as stated): after a tick, the replicas added times cpu (ram) sum to at
\* most the free cpu (memory) the cluster had when the tick started.
C4_BudgetFromInitialFree ==
    apc = "finish" =>
        /\ AddedCpu <= tick.free_cpu0
        /\ AddedRam <= tick.free_mem0

Count(seq, n) == Cardinality({i \in 1..Len(seq) : seq[i] = n})

GrantedCpu == SumOver([n \in Services |-> Count(tick.grants, n) * cpu_cores[n]], Services)
GrantedRam == SumOver([n \in Services |-> Count(tick.grants, n) * ram_mb[n]], Services)

\* C4 (amended): the replicas granted by Phase 3 times cpu (ram) sum to at most
\* the free cpu (memory) read at the start of Phase 3; releases of Phase 1 and
\* raises to the minimum of Phase 2 are not budgeted.
C4_GrantsWithinPhase3Budget ==
    (apc \in {"apply", "finish"} /\ tick.grants # <<>>) =>
        /\ GrantedCpu <= tick.free_cpu3
        /\ GrantedRam <= tick.free_mem3

\* C4 witness: Phase 3 granted replicas and stopped on the budget
C4_Witness ==
    /\ apc = "finish"
    /\ tick.grants # <<>>
    /\ \E n \in DOMAIN profiles : profiles[n].desired_instances > targets[n]

\* every write of the tick has been applied
TickComplete ==
    \/ apc = "finish" /\ AllDone(futures)
    \/ apc = "idle" /\ ran /\ ~changed

\* C5: after every completed tick the controller target of every profile is
\* at least the profile's min_instances.
C5_MinimumsGuaranteed ==
    TickComplete =>
        \A n \in DOMAIN profiles : target[n] >= profiles[n].min_instances

\* C5 witness: a tick raised a service to its minimum on a cluster with no cpu
C5_Witness ==
    /\ apc = "finish" /\ AllDone(futures)
    /\ cluster.cpu = 0
    /\ \E n \in DOMAIN profiles :
          /\ tick.snapshot[n] < profiles[n].min_instances
          /\ target[n] = profiles[n].min_instances

\* C6: a tick that starts right after a completed tick, with no profile change
\* in between, issues no controller.set_target.
C6_SecondTickSilent ==
    tick.back_to_back => tick.writes = 0

-----------------------------------------------------------------------------
(* Claims about the synchronizer (specification SpecSync) *)

ListedNames == {listing[i].name : i \in 1..Len(listing)}

\* the loop over the listing of this cycle has ended
CycleComplete == spc = "loop" /\ idx > Len(listing)

\* C7: a service that has a profile and is no longer in the catalog gets
\* set_target(name, 0) and loses its profile within one cycle, whatever the
\* catalog holds (also when it is empty or lists only disabled services).
C7_RemovedServiceStopped ==
    CycleComplete =>
        \A n \in current_services \ ListedNames :
            /\ n \in cycle.zeroed
            /\ n \notin DOMAIN profiles
            /\ target[n] = 0

\* C8: during a cycle stop_service is applied only to services that are
\* disabled or absent from the listing, so a service listed as enabled with
\* stage Running keeps its profile and its controller target.
C8_StraysOnlyAfterListing ==
    spc = "loop" =>
        /\ \A n \in cycle.stopped :
              ~ \E i \in 1..Len(listing) :
                    listing[i].name = n /\ listing[i].service.enabled
        /\ \A i \in 1..Len(listing) :
              LET n == listing[i].name
              IN  (/\ listing[i].service.enabled
                   /\ cycle.stage0[n] = "Running"
                   /\ n \in current_services)
                  => (n \in DOMAIN profiles /\ target[n] = cycle.target0[n])

-----------------------------------------------------------------------------
(* Claims about the error tracker (specification SpecErrors) *)

\* C9: for an analysis service, fewer than five reports inside the expiry
\* window write nothing to the datastore; the fifth writes exactly one
\* enabled=False update and clears the window; a sixth writes nothing more.
C9_FifthReportDisables ==
    \A n \in Services :
        now = 0 =>
            /\ reports[n] < MAXIMUM_SERVICE_ERRORS => service_delta[n] = 0
            /\ reports[n] = MAXIMUM_SERVICE_ERRORS =>
                  (service_delta[n] = 1 /\ n \notin DOMAIN error_count)
            /\ reports[n] = MAXIMUM_SERVICE_ERRORS + 1 => service_delta[n] = 1

\* C10: no number of error reports attributed to a core service writes an
\* enabled=False update for it.
C10_CoreNeverDisabled ==
    \A n \in CoreServices : service_delta[n] = 0

\* C10 witness: a core service was reported more often than the threshold
C10_Witness ==
    \E n \in CoreServices :
        /\ now = 0
        /\ reports[n] > MAXIMUM_SERVICE_ERRORS
        /\ service_delta[n] = 0

-----------------------------------------------------------------------------
(* Claims about controller failures in the synchronizer (SpecSyncFaults) *)

\* C11: a controller failure raised while a service of the listing is
\* processed (also while a service is stopped) is caught and recorded by the
\* error tracker, and the synchronizer worker does not terminate because of
\* it, so the remaining services of the listing are processed.
C11_FailureContained ==
    /\ spc # "dead"
    /\ raised = "none"
    /\ \A n \in cycle.failed : n \in DOMAIN error_count \/ service_delta[n] > 0

-----------------------------------------------------------------------------
(* Claims about the supervisor (specification SpecSupervisor) *)

\* C12: while the stop flag is not set the supervisor loop keeps coming back
\* to its check, and every worker that terminated is eventually started again
\* by a later pass.
C12_TerminatedWorkerRestarted ==
    /\ (running /\ sup = "export") ~> (sup = "check" \/ ~running)
    /\ \A w \in Workers :
          (running /\ threads[w] = "exited") ~> (threads[w] = "alive" \/ ~running)

\* every worker has left its loop
AllLeft == \A w \in Workers : threads[w] # "alive"

\* the end of a shutdown
ShutDown == AllLeft /\ main_loop_exit /\ stopper = "stopped"

\* C20 (as stated): once the stop flag is set no worker is started any more,
\* every worker eventually leaves its loop, the supervisor joins them and
\* sets main_loop_exit, and controller.stop() is eventually called.
C20_NoStartAfterStop ==
    /\ [][~running => \A w \in Workers :
                          threads[w] = "none" => threads'[w] = "none"]_vars
    /\ ~running ~> ShutDown

\* C20 (amended): once the stop flag is set the supervisor begins no new pass
\* (only a pass that had already passed its check still starts its missing
\* workers), every worker eventually leaves its loop, the supervisor joins
\* them and sets main_loop_exit, and controller.stop() is eventually called.
C20_ShutdownCompletes ==
    /\ [][(~running /\ sup = "check") => sup' # "reap"]_vars
    /\ ~running ~> ShutDown

\* C20 witness: a shutdown that ended with workers started after the flag
C20_Witness == ShutDown /\ late

-----------------------------------------------------------------------------
(* Claims about the status janitor (specification SpecJanitor) *)

\* C13: a pass removes a host from the status table only if the host was
\* absent from the running container names on that pass and on the pass
\* right before it; a flag from an earlier absence does not count once the
\* host has been seen live again.
C13_TwoConsecutiveSightings ==
    \A h \in pass.removed : h \notin pass.names /\ h \notin pass.prev_names

-----------------------------------------------------------------------------
(* Claims about the zero-instance wake-up (specification SpecWake) *)

\* the profile is at zero instances and its queue holds messages
AsleepWithWork(n) ==
    /\ n \in DOMAIN profiles
    /\ target[n] = 0
    /\ profiles[n].desired_instances = 0
    /\ queue[n] > 0

\* C14: a profile whose controller target and desired_instances are both 0
\* and whose queue holds messages eventually has a controller target >= 1;
\* the update made for it sets min_instances to 1 (or more).
C14_ZeroInstanceWakeUp ==
    /\ [][\A n \in Services :
            (AsleepWithWork(n) /\ profiles'[n] # profiles[n])
                => profiles'[n].min_instances >= 1]_vars
    /\ \A n \in Services : AsleepWithWork(n) ~> (target[n] >= 1)

\* C14 witness: Phase 2 of a tick raised a queue-holding service from target 0
\* on a cluster without free cpu
C14_Witness ==
    /\ apc = "drain" /\ AllDone(futures)
    /\ cluster.cpu = 0
    /\ \E n \in DOMAIN profiles :
          /\ queue[n] > 0
          /\ profiles[n].min_floor = 0
          /\ tick.snapshot[n] = 0
          /\ target[n] >= 1
          /\ \E i \in 1..Len(futures) : futures[i].name = n /\ futures[i].phase = 2

-----------------------------------------------------------------------------
(* Claims about the scenario "release first" (specification SpecS2) *)

\* the first tick of the scenario
FirstTick == ~ran /\ apc # "idle"

\* C15: in one tick from targets {A: 3, B: 0} with 1 cpu free, Phase 1 lowers
\* A to 2 before Phase 3 reads the free cpu, which is then 3; Phase 3 grants B
\* one replica, and the tick ends with the controller targets {A: 2, B: 1}.
C15_ReleaseFirst ==
    FirstTick =>
        /\ tick.free_cpu0 = S2Free.cpu
        /\ apc = "phase3" => target = [n \in Services |-> IF n = "A" THEN 2 ELSE 0]
        /\ apc \in {"apply", "finish"} =>
              /\ tick.free_cpu3 = 3
              /\ tick.grants = <<"B">>
              /\ targets = [n \in Services |-> IF n = "A" THEN 2 ELSE 1]
        /\ (apc = "finish" /\ AllDone(futures)) =>
              target = [n \in Services |-> IF n = "A" THEN 2 ELSE 1]

\* C15 witness: the first tick has ended with A lowered and B raised
C15_Witness ==
    /\ FirstTick
    /\ apc = "finish" /\ AllDone(futures)
    /\ tick.snapshot = S2Targets
    /\ tick.free_cpu0 = 1 /\ tick.free_cpu3 = 3
    /\ target["A"] = 2 /\ target["B"] = 1

-----------------------------------------------------------------------------
(* Claims about Phase 2 of the allocator (specification Spec) *)

\* C16: Phase 2 lowers no entry of the targets map, and every set_target it
\* submits writes a value strictly greater than the entry of the targets map
\* at that moment.
C16_Phase2NeverReduces ==
    [][apc = "phase2" =>
          /\ \A n \in DOMAIN targets : targets'[n] >= targets[n]
          /\ \A i \in (Len(futures) + 1)..Len(futures') :
                /\ futures'[i].phase = 2
                /\ futures'[i].value > targets[futures'[i].name]]_vars

\* C16 witness: Phase 2 raised a service that Phase 1 of the same tick lowered
C16_Witness ==
    /\ apc = "drain"
    /\ \E i, j \in 1..Len(futures) :
          /\ futures[i].phase = 1
          /\ futures[j].phase = 2
          /\ futures[i].name = futures[j].name
          /\ futures[j].value > futures[i].value
          /\ targets[futures[j].name] = futures[j].value

-----------------------------------------------------------------------------
(* Claims about quiet updates (specification SpecQuiet) *)

\* no quiet call increases |pressure|
QuietNeverIncreases ==
    [][(script'.kind = "quiet" /\ script' # script)
          => Abs(profiles'["A"].pressure) <= Abs(profiles["A"].pressure)]_vars

\* C17 (as stated): repeated calls of update with backlog = 0, duty_cycle =
\* target_duty_cycle and instances = min_instances, with any delta >= 0, never
\* increase |pressure| and bring pressure to 0.
C17_QuietCallsConverge ==
    /\ QuietNeverIncreases
    /\ <>[](profiles["A"].pressure = 0)

\* C17 (amended): such calls never increase |pressure|, and when calls with
\* delta > 0 keep being made they bring pressure to 0, where it stays.
C17_PositiveDeltaConverges ==
    /\ QuietNeverIncreases
    /\ ([]<><<QuietUpdatePositive>>_vars) => <>[](profiles["A"].pressure = 0)

\* C17 witness: quiet calls on a profile that still has pressure
C17_Witness ==
    /\ script.kind = "quiet"
    /\ profiles["A"].pressure > 0
    /\ profiles["A"].running_instances = profiles["A"].min_instances

-----------------------------------------------------------------------------
(* Claims about update as a function of delta (specification SpecProfile) *)

\* |pressure after - pressure before| of one update call
PressureChange(p, delta, instances, backlog, duty_cycle) ==
    Abs(update(p, delta, instances, backlog, duty_cycle).pressure - p.pressure)

\* the call fires the growth or the shrink threshold (pressure is reset)
Fires(p, delta, instances, backlog, duty_cycle) ==
    LET t == UpdateTrace(p, delta, instances, backlog, duty_cycle)
    IN  t.grew \/ t.shrank

\* C18 (as stated): from a fixed profile state and with fixed instances,
\* backlog and duty_cycle, delta1 <= delta2 implies that update(delta1, ...)
\* changes pressure by no more than update(delta2, ...) does.
C18_MonotoneInDelta ==
    \A d1, d2 \in Deltas, i \in InstanceCounts, b \in Backlogs, dc \in DutyCycles :
        d1 <= d2 =>
            PressureChange(profiles["A"], d1, i, b, dc)
                <= PressureChange(profiles["A"], d2, i, b, dc)

\* C18 (amended): the same, for calls that fire neither threshold.
C18_MonotoneBelowThresholds ==
    \A d1, d2 \in Deltas, i \in InstanceCounts, b \in Backlogs, dc \in DutyCycles :
        (/\ d1 <= d2
         /\ ~Fires(profiles["A"], d1, i, b, dc)
         /\ ~Fires(profiles["A"], d2, i, b, dc))
            => PressureChange(profiles["A"], d1, i, b, dc)
                   <= PressureChange(profiles["A"], d2, i, b, dc)

\* C18 witness: a profile reached by an update on which a longer delta moves
\* pressure further, below the thresholds
C18_Witness ==
    /\ last.op = "update"
    /\ profiles["A"].pressure # 0
    /\ \E d1, d2 \in Deltas, i \in InstanceCounts, b \in Backlogs, dc \in DutyCycles :
          /\ d1 < d2
          /\ ~Fires(profiles["A"], d1, i, b, dc)
          /\ ~Fires(profiles["A"], d2, i, b, dc)
          /\ 0 < PressureChange(profiles["A"], d1, i, b, dc)
          /\ PressureChange(profiles["A"], d1, i, b, dc)
                < PressureChange(profiles["A"], d2, i, b, dc)

-----------------------------------------------------------------------------
(* Claims about the cold start scenario (specification SpecColdStart) *)

\* the scenario's feed has been called n times
S1Calls(n) ==
    /\ script.kind = "feed"
    /\ script.feed = S1Feed
    /\ script.calls = n

\* C19 (as stated): after the ten update(delta=5, instances=0, backlog=500,
\* duty_cycle=0) calls on the profile (min 0, max 5, growth 60, shrink -30,
\* backlog reference 500) pressure has reached the growth threshold at least
\* once and desired_instances >= 1.
C19_ColdStartCrosses ==
    S1Calls(S1.calls) =>
        /\ script.crossed
        /\ profiles["A"].desired_instances >= 1

\* C19 (amended): after each of the ten calls pressure is 0 and has never
\* reached the growth threshold, and desired_instances is 1.
C19_ColdStartBalanced ==
    \A n \in 1..S1.calls :
        S1Calls(n) =>
            /\ ~script.crossed
            /\ profiles["A"].pressure = 0
            /\ profiles["A"].min_instances = 1
            /\ profiles["A"].desired_instances = 1

\* C19 witness: the tenth call of the scenario has been made
C19_Witness ==
    /\ S1Calls(S1.calls)
    /\ last.op = "update"
    /\ profiles["A"].growth_threshold = S1.growth * PressureUnit
    /\ profiles["A"].desired_instances = 1

-----------------------------------------------------------------------------
(* Claims about the step size of update (specification SpecProfile) *)

\* desired_instances after the clamp of line 151, before the threshold tests
ClampedDesired(p, instances, backlog) ==
    LET q == [p EXCEPT !.running_instances = instances]
    IN  ClampDesired(EffectiveMin(q, backlog), max_instances(q),
                     p.desired_instances)

\* C21 (as stated): every update call changes desired_instances by at most
\* 1, and a call that crosses a threshold leaves pressure at 0.
C21_OneReplicaPerCall ==
    \A d \in Deltas, i \in InstanceCounts, b \in Backlogs, dc \in DutyCycles :
        LET p == profiles["A"]
            u == update(p, d, i, b, dc)
        IN  /\ Abs(u.desired_instances - p.desired_instances) <= 1
            /\ Fires(p, d, i, b, dc) => u.pressure = 0

\* C21 (amended): the threshold step of an update call moves
\* desired_instances by at most 1 from its value after the clamp into
\* [min_instances, max_instances], except that a growth event of a profile
\* whose effective minimum exceeds max_instances sets it to max_instances; it
\* moves it only when a threshold is crossed, and a call that crosses a
\* threshold leaves pressure at 0.
C21_OneReplicaPerEvent ==
    \A d \in Deltas, i \in InstanceCounts, b \in Backlogs, dc \in DutyCycles :
        LET p == profiles["A"]
            u == update(p, d, i, b, dc)
            c == ClampedDesired(p, i, b)
            t == UpdateTrace(p, d, i, b, dc)
        IN  /\ \/ Abs(u.desired_instances - c) <= 1
               \/ /\ t.grew
                  /\ u.min_instances > max_instances(u)
                  /\ u.desired_instances = max_instances(u)
            /\ u.desired_instances # c => Fires(p, d, i, b, dc)
            /\ Fires(p, d, i, b, dc) => u.pressure = 0

\* C21 witness: a state reached by an update that crossed a threshold, from
\* which another call both clamps and steps
C21_Witness ==
    /\ last.op = "update"
    /\ last.grew \/ last.shrank
    /\ profiles["A"].pressure = 0
    /\ \E d \in Deltas, i \in InstanceCounts, b \in Backlogs, dc \in DutyCycles :
          LET p == profiles["A"]
              u == update(p, d, i, b, dc)
              c == ClampedDesired(p, i, b)
          IN  /\ Fires(p, d, i, b, dc)
              /\ c # p.desired_instances
              /\ u.desired_instances # c

-----------------------------------------------------------------------------
(* Claims about the profile bounds outside update (specification SpecSync) *)

\* C22: after add_service and after the synchronizer replaces the cap from
\* licence_count, min_instances <= desired_instances <= max_instances holds
\* for every profile of the registry (no update runs in SpecSync, so every
\* profile is as add_service or the cap replacement left it).
C22_BoundsAfterSync ==
    \A n \in DOMAIN profiles :
        /\ profiles[n].min_instances <= profiles[n].desired_instances
        /\ profiles[n].desired_instances <= max_instances(profiles[n])

-----------------------------------------------------------------------------
(* Claims about the registry lock (specification SpecLive) *)

\* update_scaling is between its snapshot of the targets and the end of its
\* last dispatch
InTick == apc \in {"phase1", "phase2", "drain", "phase3", "apply", "finish"}

\* C23: while an allocator tick is between its snapshot and its final
\* dispatch, no step of the metric ingestor or of the synchronizer changes a
\* profile (desired_instances, min_instances, container_config) or the set
\* of profiles.
C23_TickAtomic ==
    [][InTick => (profiles' = profiles /\ order' = order)]_vars

\* C23 witness: a tick has dispatched writes while a synchronizer cycle is
\* in the middle of its listing and the ingestor has updated profiles before
C23_Witness ==
    /\ apc = "finish"
    /\ tick.writes > 0
    /\ spc = "loop"
    /\ idx <= Len(listing)
    /\ ~listing[idx].service.enabled
    /\ listing[idx].name \in DOMAIN profiles
    /\ changed

-----------------------------------------------------------------------------
(* Claims about removed services (specification SpecLive) *)

\* C28: a service that stop_service has removed (no profile, controller
\* target 0) keeps the target 0 for as long as no profile is added for it
\* again: no write of the allocator's pool raises it.
C28_RemovedStaysStopped ==
    [][\A n \in Services :
          (/\ n \notin DOMAIN profiles
           /\ target[n] = 0
           /\ n \notin DOMAIN profiles') => target'[n] = 0]_vars

-----------------------------------------------------------------------------
(* Claims about the grant loop of Phase 3 (specification SpecGrant) *)

\* Phase 3 of the running tick is over, tick.grants lists its grants in order
Granted == apc \in {"apply", "finish"}

\* the local targets[n] just before the k-th grant of the tick
CountBefore(k, n) ==
    targets[n] - Count(tick.grants, n) + Count(SubSeq(tick.grants, 1, k - 1), n)

\* the cost (cpu, and ram alike) of the first k grants of the tick
CostOf(k) ==
    SumOver([n \in Services |->
                Count(SubSeq(tick.grants, 1, k), n) * profiles[n].cpu], Services)

\* the profiles that could receive the k-th grant
Candidates(k) ==
    {n \in DOMAIN profiles :
        /\ profiles[n].desired_instances > CountBefore(k, n)
        /\ Fits(profiles[n], tick.free_cpu3 - CostOf(k - 1),
                tick.free_mem3 - CostOf(k - 1))}

\* position of n in the registry (insertion order)
Position(n) == CHOOSE i \in 1..Len(order) : order[i] = n

\* C24: every grant of Phase 3 goes to a candidate with the smallest current
\* target, the grants made earlier in the same tick counted, and among those
\* to the first in insertion order.
C24_LeastRunningFirst ==
    Granted =>
        \A k \in 1..Len(tick.grants) : \A m \in Candidates(k) :
            LET g == tick.grants[k]
            IN  \/ CountBefore(k, g) < CountBefore(k, m)
                \/ /\ CountBefore(k, g) = CountBefore(k, m)
                   /\ Position(g) <= Position(m)

\* what Phase 3 computes from the state in which it starts
Phase3Result ==
    LET fc == free_cpu(target)
        fm == free_memory(target)
    IN  GrantLoop(trim(order, targets, fc, fm), targets, fc, fm, <<>>)

\* the replicas the profiles want beyond their local targets
Wanted ==
    SumOver([n \in Services |->
                IF n \in DOMAIN profiles
                THEN Max(0, profiles[n].desired_instances - targets[n])
                ELSE 0], Services)

\* C29: from every state in which Phase 3 starts the grant loop ends after at
\* most sum(max(0, desired_instances - targets[name])) grants, profiles
\* whose cpu and ram are 0 included, and free_cpu and free_memory, not
\* negative when read, are not negative when it ends (they only decrease).
C29_GrantLoopBounded ==
    apc = "phase3" =>
        /\ Len(Phase3Result.grants) <= Wanted
        /\ (free_cpu(target) >= 0 /\ free_memory(target) >= 0) =>
               /\ Phase3Result.free_cpu >= 0
               /\ Phase3Result.free_memory >= 0

\* C29 witness: Phase 3 starts with a free profile and a costly one wanting
\* replicas, and its loop grants to both until the cpu is used up
C29_Witness ==
    /\ apc = "phase3"
    /\ free_cpu(target) > 0
    /\ Phase3Result.free_cpu = 0
    /\ \E n, m \in Range(Phase3Result.grants) :
          profiles[n].cpu = 0 /\ profiles[m].cpu > 0
    /\ Len(Phase3Result.grants) < Wanted

-----------------------------------------------------------------------------
(* Claims about stop_service (specification SpecSync) *)

\* stop_service(n, get_service_stage(n)) called in the current state, with
\* empty records of the calls made
Stopped(n) ==
    stop_service([SyncState EXCEPT !.stopped = {}, !.zeroed = {},
                                   !.deps_stopped = {}], n, stage[n])

\* C25: after stop_service(name, stage), called as sync_services calls it
\* (stage is the stage just read), name is not in the registry, its
\* controller target is 0 and its stage is Off; set_target(name, 0) was
\* called iff the profile existed or the target was not 0, and the
\* dependency containers were stopped iff the stage passed in was not Off.
C25_StopServicePost ==
    \A n \in Services :
        /\ n \notin DOMAIN Stopped(n).profiles
        /\ n \notin Range(Stopped(n).order)
        /\ Stopped(n).target[n] = 0
        /\ Stopped(n).stage[n] = "Off"
        /\ n \in Stopped(n).zeroed <=> (n \in DOMAIN profiles \/ target[n] # 0)
        /\ n \in Stopped(n).deps_stopped <=> stage[n] # "Off"
        /\ \A m \in Services \ {n} :
              /\ Stopped(n).target[m] = target[m]
              /\ Stopped(n).stage[m] = stage[m]
              /\ m \in DOMAIN Stopped(n).profiles <=> m \in DOMAIN profiles

\* C25 witness: in one cycle the synchronizer has stopped a service that had
\* a profile or a target and one that had neither
C25_Witness ==
    /\ cycle.zeroed # {}
    /\ cycle.stopped \ cycle.zeroed # {}
    /\ cycle.deps_stopped # {}
    /\ \A n \in cycle.stopped :
          n \notin DOMAIN profiles /\ target[n] = 0 /\ stage[n] = "Off"

-----------------------------------------------------------------------------
(* Claims about process_timeouts (specification SpecReaper) *)

\* the call submitted for message m has not run yet
Pending(m) ==
    \E t \in reaper.executor :
        m.service = (t.args \o t.kwargs.args)[1]
            /\ m.container = (t.args \o t.kwargs.args)[2]

\* C26: every message popped from the timeout queue gets exactly one
\* controller.stop_container(service, container) call with its two values
\* (once the submitted call has run), no other call is made, and the worker
\* is alive as long as the server is running.
C26_PoppedStoppedOnce ==
    /\ \A m \in Messages :
          /\ (m \in reaper.popped /\ ~Pending(m)) => reaper.calls[m] = 1
          /\ m \notin reaper.popped => reaper.calls[m] = 0
          /\ reaper.calls[m] <= 1
    /\ running => reaper.alive

-----------------------------------------------------------------------------
(* Claims about the reset of pressure (specification SpecProfile) *)

\* C27: after every update call of a profile with growth_threshold > 0 and
\* shrink_threshold < 0, shrink_threshold < pressure < growth_threshold,
\* also when desired_instances could not move, and no call both grows and
\* shrinks.
C27_ResetBound ==
    \A n \in DOMAIN profiles :
        (/\ last.op = "update"
         /\ profiles[n].growth_threshold > 0
         /\ profiles[n].shrink_threshold < 0) =>
            /\ profiles[n].shrink_threshold < profiles[n].pressure
            /\ profiles[n].pressure < profiles[n].growth_threshold
            /\ ~(last.grew /\ last.shrank)

\* C27 witness: an update reached the growth threshold and was reset, and
\* from the state it left another call reaches a threshold without moving
\* desired_instances
C27_Witness ==
    /\ last.op = "update"
    /\ last.grew
    /\ profiles["A"].pressure = 0
    /\ profiles["A"].growth_threshold > 0
    /\ profiles["A"].shrink_threshold < 0
    /\ \E d \in Deltas, i \in InstanceCounts, b \in Backlogs, dc \in DutyCycles :
          /\ Fires(profiles["A"], d, i, b, dc)
          /\ update(profiles["A"], d, i, b, dc).desired_instances
                = ClampedDesired(profiles["A"], i, b)

-----------------------------------------------------------------------------
(* Claims about IngesterInternals.try_run (specification SpecIngester) *)

\* C30: while the server is running try_run is in its loop and looks after
\* the tasks (a finished task is resubmitted by a later pass); try_run stops
\* the server once 4 terminations with an exception have been counted, and
\* task failures do not stop it before the fourth.
C30_TasksKeptAlive ==
    /\ ingester.running => ingester.pc = "loop"
    /\ (ingester.pc = "loop" /\ ingester.error_limit > 0 /\ ~ingester.external)
          => ingester.running
    /\ (ingester.stops > 0 /\ ~ingester.external)
          => ErrorLimit - ingester.error_limit >= 4

=============================================================================
